---- MODULE Spec2Model ----
(***************************************************************************)
(* Model of the knurl HTTP backend (src-tauri): the cancellation registry  *)
(* (http_client/manager.rs), the send_http_request command that races      *)
(* HyperEngine::execute against the registered token (lib.rs), and the     *)
(* redirect / fallback loop of HyperEngine::execute (hyper_engine.rs).     *)
(*                                                                         *)
(* Spec      several concurrent send_http_request calls and cancel calls   *)
(*           over the shared registry; small request and network sets.     *)
(* ExecSpec  one send_http_request call that nobody cancels; the full set  *)
(*           of request options and network outcomes.                      *)
(* CaptureSpec  one call that nobody cancels and whose response body is    *)
(*           captured (handle_response): thresholds, declared lengths,     *)
(*           chunk sequences and temp-file failures vary.                  *)
(* ResolverSpec  the OverrideResolver of a connector                       *)
(*           (hyper_engine/connector.rs) and the lookups it answers.       *)
(***************************************************************************)
EXTENDS Integers, Sequences, FiniteSets, TLC

----------------------------------------------------------------------------
(* Bounds *)

MaxRedirects == 2       \* largest max_redirects a request carries
MaxSegments == 6        \* most attribute segments of a Set-Cookie header
MaxParts == 2           \* most parts of a multipart request
MaxName == 2            \* most characters of a host name
MaxChunks == 3          \* most chunks of a captured response body

\* The send_http_request calls, named in the order they register
Calls == {"c1", "c2"}
Ids == {"id1", "id2"}   \* request ids

\* Option<T>: None is the empty sequence, Some(x) the one-element sequence.
None == <<>>
Some(x) == <<x>>
IsSome(o) == o # None
Unwrap(o) == o[1]
UnwrapOr(o, d) == IF IsSome(o) THEN o[1] ELSE d

\* Texts are sequences of tokens (characters or whole words)
RECURSIVE trim_start(_)
trim_start(s) ==
    IF s # <<>> /\ Head(s) = " " THEN trim_start(Tail(s)) ELSE s

RECURSIVE trim_end(_)
trim_end(s) ==
    IF s # <<>> /\ s[Len(s)] = " " THEN trim_end(SubSeq(s, 1, Len(s) - 1))
    ELSE s

\* str::trim
trim(s) == trim_end(trim_start(s))

\* str::find: the position of the first c in s, 0 when there is none
find(s, c) ==
    IF \E i \in DOMAIN s : s[i] = c
    THEN CHOOSE i \in DOMAIN s : s[i] = c /\ \A j \in 1..(i - 1) : s[j] # c
    ELSE 0

Digits == {"0", "1"}

NoOpts == [request_id |-> "none"]
NoResult == [kind |-> "none"]
Pending == [t |-> "pending"]
NoIO == [t |-> "noio"]
NoCancel == [id |-> "none", ret |-> FALSE, res |-> [kind |-> "none"],
             at |-> "none"]

----------------------------------------------------------------------------
(* Values of the request and of the network *)

Methods == {"GET", "HEAD", "POST"}
Versions == {"unset", "auto", "http1", "http2"}

NoPart == "none"
Uri(s, h, p) == [scheme |-> s, host |-> h, port |-> p]
UriA == Uri("https", "a.test", NoPart)
UriA80 == Uri("https", "a.test", "8080")
UriAHttp == Uri("http", "a.test", NoPart)
UriB == Uri("https", "b.test", NoPart)
UriPathOnly == Uri(NoPart, NoPart, NoPart)     \* "/next" parsed as a Uri
InvalidUri == [invalid |-> TRUE]
AbsUris == {UriA, UriA80, UriAHttp, UriB}

SensitiveHeaders == {"authorization", "proxy-authorization", "cookie"}
HopByHopHeaders == {"connection", "proxy-connection", "keep-alive",
                    "upgrade", "transfer-encoding"}

\* Location header of a response: absent, an absolute URI, a path such as
\* "/next" (parses as a Uri without scheme and host), a relative reference
\* such as "p/q" (fails to parse, joins with the current URI), or a value
\* that parses neither alone nor joined.
Locations == {[k |-> "none"], [k |-> "pathonly"], [k |-> "rel"], [k |-> "bad"]}
               \cup {[k |-> "abs", uri |-> u] : u \in AbsUris}

Statuses == {200, 299, 300, 301, 302, 303, 307, 308, 399, 400}

\* content_length: the Content-Length header of the response, if it has one
\* that parses as u64. chunks: the most chunks its body stream yields.
Responses == {[t |-> "resp", status |-> s, loc |-> l,
               content_length |-> None, chunks |-> 1] :
                 s \in Statuses, l \in Locations}
ContentLengths == {None, Some(1), Some(3)}
CaptureResponses == {[t |-> "resp", status |-> 200, loc |-> [k |-> "none"],
                      content_length |-> c, chunks |-> MaxChunks] :
                        c \in ContentLengths}
\* A transport error: h2 and proto say whether its lower-cased text contains
\* ("http2" or "h2") and ("protocol_error", "protocol error" or "reset").
\* rebuild: what build_connector gives when it is called again for the
\* fallback ("ok", or the kind of its error).
TransportErrors == {[t |-> "err", h2 |-> a, proto |-> b, rebuild |-> "ok"] :
                       a \in BOOLEAN, b \in BOOLEAN}
\* A transport error that leads to the fallback, after which the CA bundle
\* can no longer be read or no longer holds a certificate
RebuildErrors == {[t |-> "err", h2 |-> TRUE, proto |-> TRUE, rebuild |-> k] :
                     k \in {"IoError", "BadRequest"}}
Timeouts == {[t |-> "timeout"]}
\* The body stream yields a chunk of bytes, ends, or fails. io says whether
\* the temp-file operations made while handling the item (create, write,
\* keep) succeed: with "nofile" the file cannot be created, with "fail" a
\* write to it or the keep of it fails.
ChunkBytes == {<<>>, <<1>>, <<2, 3>>}
IOs == {"ok", "fail", "nofile"}
Chunk(bytes, io) == [t |-> "chunk", bytes |-> bytes, io |-> io]
End(io) == [t |-> "end", io |-> io]
BodyErr == [t |-> "bodyerr"]
BodyEvents == {Chunk(b, i) : b \in ChunkBytes, i \in IOs}
                 \cup {End(i) : i \in IOs \ {"nofile"}} \cup {BodyErr}

ExecOutcomes == Responses \cup TransportErrors \cup Timeouts
                   \cup {Chunk(<<1>>, "ok"), End("ok"), BodyErr}
CaptureOutcomes == CaptureResponses \cup BodyEvents

RaceOutcomes ==
    {[t |-> "resp", status |-> 200, loc |-> [k |-> "none"],
      content_length |-> None, chunks |-> 1],
     [t |-> "resp", status |-> 302, loc |-> [k |-> "abs", uri |-> UriB],
      content_length |-> None, chunks |-> 1],
     [t |-> "err", h2 |-> TRUE, proto |-> TRUE, rebuild |-> "ok"],
     [t |-> "timeout"], Chunk(<<1>>, "ok"), End("ok"), BodyErr}

\* valid: outcome of build_uri / parse_method / build_headers / build_body /
\* build_connector on the request ("ok", or the kind of the error returned).
Opts(ids, methods, uris, redirects, versions, valids, hdrs, bodies) ==
    [request_id : ids, method : methods, uri : uris,
     max_redirects : redirects, http_version : versions, valid : valids,
     headers : hdrs, body : bodies, host_override : {None},
     user_agent : {None}, ca_path : {None}, ip_override : {None},
     disable_ssl : {None}, preview_max_bytes : {None},
     log_bodies : {None}, max_log_bytes : {None}]

ExecOpts ==
    Opts({"id1"}, Methods, {UriA}, {None} \cup {Some(n) : n \in 0..MaxRedirects}, Versions,
         {"ok", "BadRequest", "IoError"},
         {{}, {"authorization", "cookie", "accept", "connection"}},
         {"empty", "data"})

RaceOpts ==
    Opts(Ids, {"POST"}, {UriA}, {Some(1)}, {"unset"},
         {"ok", "BadRequest"}, {{}}, {"data"})

\* Requests for the capture of a response body: preview_max_bytes,
\* log_bodies and max_log_bytes vary
Previews == {None, Some(0), Some(2)}
LogBodies == {None, Some(FALSE)}
MaxLogBytes == {None, Some(1)}
CaptureOpts ==
    {[o EXCEPT !.preview_max_bytes = p, !.log_bodies = l,
               !.max_log_bytes = m] :
        o \in Opts({"id1"}, {"GET"}, {UriA}, {None}, {"unset"}, {"ok"}, {{}},
                   {"empty"}),
        p \in Previews, l \in LogBodies, m \in MaxLogBytes}

\* Requests whose protocol preference, Host and User-Agent headers, host
\* override, user agent and TLS options vary
HostOverrides ==
    {None, Some(<<"o.test", ":", "1", "0">>), Some(<<" ">>),
     Some(<<"[", "::1", "]", ":", "1">>)}
OptionHeaders ==
    {{}, {"user-agent", "accept"},
     {"host", "user-agent", "connection", "proxy-connection", "keep-alive",
      "upgrade", "transfer-encoding"}}
OptionOpts ==
    {[o EXCEPT !.host_override = h, !.user_agent = ua, !.ca_path = ca,
               !.disable_ssl = d] :
        o \in Opts({"id1"}, {"POST"}, {UriA}, {None, Some(1)}, Versions,
                   {"ok", "BadRequest"}, OptionHeaders, {"data"}),
        h \in HostOverrides, ua \in {None, Some("ua.field")},
        ca \in {None, Some("ca.pem")}, d \in {None, Some(TRUE)}}
OptionOutcomes ==
    {[t |-> "resp", status |-> s, loc |-> l, content_length |-> None,
      chunks |-> 1] :
        s \in {200, 302}, l \in {[k |-> "none"], [k |-> "abs", uri |-> UriA80],
                                 [k |-> "abs", uri |-> UriB]}}
       \cup TransportErrors \cup RebuildErrors \cup Timeouts \cup {End("ok")}

\* The ids are interchangeable: the first call uses the first one.
RaceOptsOf(r) ==
    IF r = "c1" THEN {o \in RaceOpts : o.request_id = "id1"} ELSE RaceOpts

\* Host names: sequences of characters, in either case
Chars == {"a", "A", "b"}
Names == UNION {[1..n -> Chars] : n \in 1..MaxName}

\* Request::ip_override: absent, blank, an IP address, or other text
IpOverrides == {None, Some([blank |-> TRUE, ip |-> None]),
                Some([blank |-> FALSE, ip |-> Some("10.0.0.1")]),
                Some([blank |-> FALSE, ip |-> None])}
Ports == {None, Some(8080)}
Schemes == {"https", "http"}
SocketAddr(ip, port) == [ip |-> ip, port |-> port]

\* What GaiResolver answers: addresses, possibly none, or an error
SystemAnswers ==
    {[ok |-> TRUE, addrs |-> <<>>],
     [ok |-> TRUE, addrs |-> <<SocketAddr("192.0.2.1", 0)>>],
     [ok |-> TRUE, addrs |-> <<SocketAddr("10.0.0.1", 0),
                               SocketAddr("192.0.2.2", 0)>>],
     [ok |-> FALSE, err |-> "failed to lookup address information"]}

NoResolver == [built |-> "no"]
NoParse == [at |-> "start"]
NoBody == [built |-> "no"]
NoLog == [at |-> "start"]

\* The tasks that use the registry mutex: send_http_request commands and
\* cancel_http_request commands
SendTasks == {"s1", "s2"}
CancelTasks == {"k1", "k2"}
LockTasks == SendTasks \cup CancelTasks
NoLock == [holder |-> None, at |-> [task \in LockTasks |-> "idle"]]

----------------------------------------------------------------------------
(* State *)

VARIABLES
    tokens,     \* manager.rs TOKENS: request id -> Option<token>
    cancelled,  \* the CancellationTokens that have been cancelled
    pc,         \* position of each send_http_request call
    opts,       \* the Request each call was given
    exec,       \* state of each call's execute future
    result,     \* what select! produced for each call
    last,       \* the last cancel_http_request call: its id, what cancel and
                \* the command returned, and where the call owning the
                \* cancelled token stood
    dns,        \* the OverrideResolver of a connector and its last lookup
    ck,         \* a parse_set_cookie_header call: its input so far and cookie
    mp,         \* a build_body call on a multipart request and its result
    lg,         \* the log events of two executions that differ in the values
                \* of their sensitive headers
    lk          \* the registry mutex and the tasks that use it

vars == <<tokens, cancelled, pc, opts, exec, result, last, dns, ck, mp, lg, lk>>

\* The token created by call r (CancellationToken::new() in register) is r:
\* every call registers exactly once, so r names a fresh token.
NoSent == [via |-> "none"]
IdleExec ==
    [stage |-> "start", current_uri |-> InvalidUri, current_method |-> "",
     current_body |-> "empty", headers |-> {},
     values |-> [user_agent |-> None, host |-> None], redirects_left |-> 0,
     sends |-> 0, fallbacks |-> 0, sent |-> NoSent, status |-> 0,
     chunks |-> 0, body_chunks |-> 0, out |-> NoResult,
     content_length |-> 0, size |-> 0, body_buf |-> <<>>, temp |-> None,
     write_to_file |-> FALSE, received |-> <<>>, body_log |-> <<>>,
     temp_file |-> "none"]

Init ==
    /\ tokens = [i \in Ids |-> None]
    /\ cancelled = {}
    /\ pc = [r \in Calls |-> "idle"]
    /\ opts = [r \in Calls |-> NoOpts]
    /\ exec = [r \in Calls |-> IdleExec]
    /\ result = [r \in Calls |-> NoResult]
    /\ last = NoCancel
    /\ dns = NoResolver
    /\ ck = NoParse
    /\ mp = NoBody
    /\ lg = NoLog
    /\ lk = NoLock

----------------------------------------------------------------------------
(* Cancellation registry: http_client/manager.rs *)

\* The registry operations take the map and the set of cancelled tokens.

\* map.insert(id, token.clone()): an insert-if-absent would keep the old token
register_keep_existing(map, id, token) ==
    IF IsSome(map[id]) THEN map ELSE [map EXCEPT ![id] = Some(token)]

\* map.insert(id, token.clone())
register(map, id, token) == [map EXCEPT ![id] = Some(token)]

\* a cancel that reports success whether or not the id is tracked
cancel_always_true(map, canc, id) ==
    IF IsSome(map[id])
    THEN [ret |-> TRUE, cancelled |-> canc \cup {Unwrap(map[id])}]
    ELSE [ret |-> TRUE, cancelled |-> canc]

\* if let Some(token) = map.get(id) { token.cancel(); true } else { false }
cancel(map, canc, id) ==
    IF IsSome(map[id])
    THEN [ret |-> TRUE, cancelled |-> canc \cup {Unwrap(map[id])}]
    ELSE [ret |-> FALSE, cancelled |-> canc]

\* a remove that empties the registry
remove_all(map, canc, id) ==
    [map |-> [i \in DOMAIN map |-> None], cancelled |-> canc]

\* a remove that leaves the entry in place
remove_keeps_entry(map, canc, id) == [map |-> map, cancelled |-> canc]

\* a remove that also signals the token it drops
remove_and_cancel(map, canc, id) ==
    [map |-> [map EXCEPT ![id] = None],
     cancelled |-> IF IsSome(map[id]) THEN canc \cup {Unwrap(map[id])}
                   ELSE canc]

\* map.remove(id)
remove(map, canc, id) ==
    [map |-> [map EXCEPT ![id] = None], cancelled |-> canc]

\* the two arms swapped
cancel_http_request_inner_swapped(ret, id) ==
    IF ret THEN [kind |-> "BadRequest", id |-> id] ELSE [kind |-> "Ok"]

\* lib.rs cancel_http_request_inner: Ok(()) or BadRequest naming the id
cancel_http_request_inner(ret, id) ==
    IF ret THEN [kind |-> "Ok"] ELSE [kind |-> "BadRequest", id |-> id]

----------------------------------------------------------------------------
(* HyperEngine::execute: hyper_engine.rs *)

Err(kind) == [kind |-> kind]
\* AppError with a context map, of which the keys are kept
ErrCtx(kind, ctx) == [kind |-> kind, ctx |-> ctx]
\* ResponseData: file is the content of the file that file_path names
Ok(status, content_length, body, file_path, size, file) ==
    [kind |-> "Ok", status |-> status, content_length |-> content_length,
     body |-> body, file_path |-> file_path, size |-> size, file |-> file]

\* a sanitizer that leaves Transfer-Encoding in place
sanitize_headers_for_h2_keeps_te(headers, prefer_h2, allow_host) ==
    IF ~prefer_h2 THEN headers
    ELSE (headers \ (HopByHopHeaders \ {"transfer-encoding"}))
            \ (IF allow_host THEN {} ELSE {"host"})

\* Lines 239-255
sanitize_headers_for_h2(headers, prefer_h2, allow_host) ==
    IF ~prefer_h2 THEN headers
    ELSE (headers \ HopByHopHeaders) \ (IF allow_host THEN {} ELSE {"host"})

\* Lines 225-236: the User-Agent that build_headers inserts when the request
\* has no user_agent field
DefaultUserAgent == "Knurl/version"
\* The values of the caller's own Host and User-Agent headers
CallerHost == <<"h.caller">>
CallerUserAgent == "ua.caller"

\* Lines 194-237: the names of the header map and the values of its Host and
\* User-Agent entries. insert replaces the entries of the same name.
build_headers(opt) ==
    [names |-> opt.headers \cup {"user-agent"},
     values |-> [user_agent |-> Some(IF IsSome(opt.user_agent)
                                     THEN Unwrap(opt.user_agent)
                                     ELSE DefaultUserAgent),
                 host |-> IF "host" \in opt.headers THEN Some(CallerHost)
                          ELSE None]]

\* str::rsplit_once(':'): the position of the last ':', 0 when there is none
rfind(s, c) ==
    IF \E i \in DOMAIN s : s[i] = c
    THEN CHOOSE i \in DOMAIN s : s[i] = c /\ \A j \in (i + 1)..Len(s) : s[j] # c
    ELSE 0

\* connector.rs 165-182
sanitize_host_token(value) ==
    LET trimmed == trim(value)
        end == find(trimmed, "]")
        colon == rfind(trimmed, ":")
    IN IF trimmed = <<>> THEN <<>>
       ELSE IF Head(trimmed) = "[" /\ end # 0 THEN SubSeq(trimmed, 1, end)
       ELSE IF colon # 0
               /\ \A i \in (colon + 1)..Len(trimmed) : trimmed[i] \in Digits
       THEN SubSeq(trimmed, 1, colon - 1)
       ELSE trimmed

\* connector.rs 154-163
compute_host_header(override_value, uri_host) ==
    IF IsSome(override_value)
          /\ sanitize_host_token(Unwrap(override_value)) # <<>>
    THEN Some(sanitize_host_token(Unwrap(override_value)))
    ELSE IF uri_host = NoPart THEN None ELSE Some(<<uri_host>>)

\* The Host and User-Agent entries of a header map with these names
header_values(names, values) ==
    [user_agent |-> IF "user-agent" \in names THEN values.user_agent
                    ELSE None,
     host |-> IF "host" \in names THEN values.host ELSE None]

\* The request handed to client.request / fb_client.request
Wire(via, method, uri, body, headers, values) ==
    [via |-> via, method |-> method, uri |-> uri, body |-> body,
     headers |-> headers, values |-> header_values(headers, values)]

\* execute returns out; the future holds nothing afterwards
\* The events logged stay logged. A temp file that is open when execute
\* returns was kept (lines 1201-1205) when the return is the response, and
\* is deleted by the drop of its NamedTempFile otherwise.
Finish(e, out) ==
    [IdleExec EXCEPT !.stage = "done", !.out = out, !.body_log = e.body_log,
                     !.temp_file = IF e.temp_file # "open" THEN e.temp_file
                                   ELSE IF out.kind = "Ok" THEN "kept"
                                   ELSE "deleted"]

\* Lines 527-694: validation, header preparation, connector, first send.
ExecuteStart(e, opt) ==
    IF opt.valid # "ok" THEN Finish(e, Err(opt.valid))
    ELSE LET prefer_h2 == opt.http_version # "http1"
             allow_host == opt.http_version = "http1"
                              \/ IsSome(opt.host_override)
             headers == sanitize_headers_for_h2(
                            build_headers(opt).names, prefer_h2, allow_host)
         IN [e EXCEPT !.stage = "send",
                      !.current_uri = opt.uri,
                      !.current_method = opt.method,
                      !.current_body = opt.body,
                      !.headers = headers,
                      !.values = build_headers(opt).values,
                      !.redirects_left = UnwrapOr(opt.max_redirects, 0),
                      !.sends = 1,
                      !.sent = Wire("primary", opt.method, opt.uri, opt.body,
                                    headers, build_headers(opt).values)]

\* Lines 946-960: the URI of the next hop, or InvalidUri
next_uri(current_uri, loc) ==
    CASE loc.k = "abs" -> loc.uri
      [] loc.k = "pathonly" -> UriPathOnly
      [] loc.k = "rel" -> current_uri
      [] OTHER -> InvalidUri

\* a 303 that keeps the method
next_method_303_keeps(status, current_method) ==
    CASE status \in {301, 302} ->
            IF current_method = "GET" \/ current_method = "HEAD"
            THEN current_method ELSE "GET"
      [] OTHER -> current_method

\* Lines 962-973
next_method(status, current_method) ==
    CASE status = 303 -> "GET"
      [] status \in {301, 302} ->
            IF current_method = "GET" \/ current_method = "HEAD"
            THEN current_method ELSE "GET"
      [] status \in {307, 308} -> current_method
      [] OTHER -> current_method

\* Lines 979-981
origin_changed(current_uri, next) ==
    \/ current_uri.scheme # next.scheme
    \/ current_uri.host # next.host
    \/ current_uri.port # next.port

\* Lines 1015-1025 and 1042-1088: the response is terminal and capture
\* begins; the variables of the redirect loop are not used again.
DefaultThreshold == 20 * 1024 * 1024
stream_to_file_threshold(opt) ==
    UnwrapOr(opt.preview_max_bytes, DefaultThreshold)

BeginCapture(e, opt, res) ==
    LET content_length == UnwrapOr(res.content_length, 0)
    IN [IdleExec EXCEPT
            !.stage = "body", !.status = res.status,
            !.sends = e.sends, !.fallbacks = e.fallbacks,
            !.body_chunks = res.chunks,
            !.content_length = content_length,
            !.body_log = e.body_log, !.temp_file = e.temp_file,
            !.write_to_file =
                content_length > stream_to_file_threshold(opt)]

\* a redirect that keeps the body whatever the next method is
next_body_kept(next_method_, current_body) == current_body

\* Lines 975-977: the body is cleared when the next method is GET or HEAD
next_body(next_method_, current_body) ==
    IF next_method_ = "GET" \/ next_method_ = "HEAD" THEN "empty"
    ELSE current_body

\* a strip that leaves the Cookie header in place
next_headers_keep_cookie(headers, changed) ==
    IF changed THEN headers \ {"authorization", "proxy-authorization"}
    ELSE headers

\* Lines 990-999: credentials are removed from the header map, which every
\* later request of the execution is built from
next_headers(headers, changed) ==
    IF changed THEN headers \ SensitiveHeaders ELSE headers

\* a redirect check that ignores an exhausted budget
AfterResponse_no_budget_check(e, opt, res) ==
    IF ~(res.status \in 300..399) \/ res.loc.k \in {"none", "bad"}
    THEN BeginCapture(e, opt, res)
    ELSE LET nu == next_uri(e.current_uri, res.loc)
             nm == next_method(res.status, e.current_method)
             nb == next_body(nm, e.current_body)
             nh == next_headers(e.headers,
                                origin_changed(e.current_uri, nu))
         IN [e EXCEPT !.stage = "send",
                      !.current_uri = nu,
                      !.current_method = nm,
                      !.current_body = nb,
                      !.headers = nh,
                      !.redirects_left =
                          IF e.redirects_left = 0 THEN 0
                          ELSE e.redirects_left - 1,
                      !.sends = e.sends + 1,
                      !.sent = Wire("primary", nm, nu, nb, nh, e.values)]

\* Lines 935-1012 followed by the next iteration's send (675-696)
AfterResponse(e, opt, res) ==
    IF e.redirects_left = 0 \/ ~(res.status \in 300..399)
    THEN BeginCapture(e, opt, res)
    ELSE IF res.loc.k = "none" THEN BeginCapture(e, opt, res)
    ELSE LET nu == next_uri(e.current_uri, res.loc)
             nm == next_method(res.status, e.current_method)
             nb == next_body(nm, e.current_body)
             nh == next_headers(e.headers,
                                origin_changed(e.current_uri, nu))
         IN IF nu = InvalidUri THEN BeginCapture(e, opt, res)
            ELSE [e EXCEPT !.stage = "send",
                           !.current_uri = nu,
                           !.current_method = nm,
                           !.current_body = nb,
                           !.headers = nh,
                           !.redirects_left = e.redirects_left - 1,
                           !.sends = e.sends + 1,
                           !.sent = Wire("primary", nm, nu, nb, nh, e.values)]

\* Lines 856-874 and 903-921: context keys of an error of the primary send
PrimaryCtx(opt) ==
    {"method", "uri", "timeoutSecs", "engine"}
        \cup (IF IsSome(opt.host_override) THEN {"hostOverride"} ELSE {})
        \cup (IF IsSome(opt.ip_override) THEN {"ipOverride"} ELSE {})
        \cup (IF IsSome(opt.disable_ssl) THEN {"disableSsl"} ELSE {})
        \cup (IF IsSome(opt.ca_path) THEN {"caPath"} ELSE {})
        \cup (IF IsSome(opt.user_agent) THEN {"userAgent"} ELSE {})

\* Lines 801-805 and 820-824: context keys of an error of the fallback send
FallbackCtx == {"method", "uri", "engine", "httpVersion"}

\* a heuristic that does not look at the protocol preference
can_fallback_any_pref(http_version, err) ==
    /\ err.h2
    /\ err.proto

\* Lines 706-715
can_fallback(http_version, err) ==
    /\ (IF http_version = "unset" THEN "auto" ELSE http_version)
          \in {"auto", "http2"}
    /\ err.h2
    /\ err.proto

\* Lines 755-768: the fallback request gets a Host header unless the header
\* map has one
fallback_values(e, opt) ==
    [e.values EXCEPT !.host =
        IF "host" \in e.headers THEN e.values.host
        ELSE compute_host_header(opt.host_override, opt.uri.host)]

\* Lines 696-933: outcome of the primary send
OnPrimary(e, opt, o) ==
    CASE o.t = "resp" -> AfterResponse(e, opt, o)
      [] o.t = "err" ->
            IF can_fallback(opt.http_version, o)
            THEN IF IsSome(opt.ca_path) /\ o.rebuild # "ok"
                 THEN Finish(e, Err(o.rebuild))
                 ELSE [e EXCEPT
                         !.stage = "fallback",
                         !.fallbacks = e.fallbacks + 1,
                         !.sent = Wire("fallback", opt.method, opt.uri,
                                       opt.body, e.headers \cup {"host"},
                                       fallback_values(e, opt))]
            ELSE Finish(e, ErrCtx("HttpError", PrimaryCtx(opt)))
      [] OTHER -> Finish(e, ErrCtx("Timeout", PrimaryCtx(opt)))

\* a fallback that is retried once more when it fails
OnFallback_retry(e, opt, o) ==
    CASE o.t = "resp" -> AfterResponse(e, opt, o)
      [] o.t = "err" ->
            IF e.fallbacks <= e.sends
            THEN [e EXCEPT !.fallbacks = e.fallbacks + 1]
            ELSE Finish(e, ErrCtx("HttpError", FallbackCtx))
      [] OTHER -> Finish(e, ErrCtx("Timeout", FallbackCtx))

\* a fallback whose failure starts the primary send of the hop again
OnFallback_primary_again(e, opt, o) ==
    CASE o.t = "resp" -> AfterResponse(e, opt, o)
      [] o.t = "err" ->
            [e EXCEPT !.stage = "send", !.fallbacks = e.fallbacks - 1,
                      !.sent = Wire("primary", e.current_method,
                                    e.current_uri, e.current_body, e.headers,
                                    e.values)]
      [] OTHER -> Finish(e, ErrCtx("Timeout", FallbackCtx))

\* a fallback whose expired deadline is reported like a transport error
OnFallback_timeout_as_error(e, opt, o) ==
    CASE o.t = "resp" -> AfterResponse(e, opt, o)
      [] OTHER -> Finish(e, ErrCtx("HttpError", FallbackCtx))

\* Lines 779-836: outcome of the fallback send
OnFallback(e, opt, o) ==
    CASE o.t = "resp" -> AfterResponse(e, opt, o)
      [] o.t = "err" -> Finish(e, ErrCtx("HttpError", FallbackCtx))
      [] OTHER -> Finish(e, ErrCtx("Timeout", FallbackCtx))

\* Lines 1089-1222: one item of the body stream
\* a spill that starts when the size reaches the threshold
StoreChunk_spill_at_threshold(e, threshold, bytes) ==
    LET size == e.size + Len(bytes)
    IN IF e.write_to_file \/ size >= threshold
       THEN [e EXCEPT !.size = size,
                      !.temp = Some(UnwrapOr(e.temp, e.body_buf) \o bytes),
                      !.body_buf = IF IsSome(e.temp) THEN e.body_buf
                                   ELSE <<>>,
                      !.write_to_file = TRUE]
       ELSE [e EXCEPT !.size = size, !.body_buf = e.body_buf \o bytes]

\* a spill that forgets the bytes buffered in memory
StoreChunk_no_flush(e, threshold, bytes) ==
    LET size == e.size + Len(bytes)
    IN IF e.write_to_file \/ size > threshold
       THEN [e EXCEPT !.size = size,
                      !.temp = Some(UnwrapOr(e.temp, <<>>) \o bytes),
                      !.body_buf = IF IsSome(e.temp) THEN e.body_buf
                                   ELSE <<>>,
                      !.write_to_file = TRUE]
       ELSE [e EXCEPT !.size = size, !.body_buf = e.body_buf \o bytes]

\* a size that counts only the bytes buffered in memory
StoreChunk_size_of_buffer(e, threshold, bytes) ==
    LET size == e.size + Len(bytes)
    IN IF e.write_to_file \/ size > threshold
       THEN [e EXCEPT !.temp = Some(UnwrapOr(e.temp, e.body_buf) \o bytes),
                      !.body_buf = IF IsSome(e.temp) THEN e.body_buf
                                   ELSE <<>>,
                      !.write_to_file = TRUE]
       ELSE [e EXCEPT !.size = size, !.body_buf = e.body_buf \o bytes]

\* Lines 1102-1134: the chunk is counted, then written to the temp file
\* (created on first use and given the buffered bytes first) or buffered
StoreChunk(e, threshold, bytes) ==
    LET size == e.size + Len(bytes)
    IN IF e.write_to_file \/ size > threshold
       THEN [e EXCEPT !.size = size,
                      !.temp = Some(UnwrapOr(e.temp, e.body_buf) \o bytes),
                      !.body_buf = IF IsSome(e.temp) THEN e.body_buf
                                   ELSE <<>>,
                      !.write_to_file = TRUE]
       ELSE [e EXCEPT !.size = size, !.body_buf = e.body_buf \o bytes]

\* a response that repeats the content of its file inline
Captured_inline_copy(e) ==
    IF IsSome(e.temp)
    THEN Ok(e.status, e.content_length, Unwrap(e.temp), Some("knurl-"),
            e.size, e.temp)
    ELSE Ok(e.status, e.content_length, e.body_buf, None, e.size, None)

\* Lines 1201-1221: the kept file or the buffer, and the size
Captured(e) ==
    IF IsSome(e.temp)
    THEN Ok(e.status, e.content_length, <<>>, Some("knurl-"), e.size, e.temp)
    ELSE Ok(e.status, e.content_length, e.body_buf, None, e.size, None)

\* Lines 28, 508-510: the most bytes of a body that one log event shows
DEFAULT_MAX_LOG_BYTES == 128 * 1024
max_log_bytes(opt) == UnwrapOr(opt.max_log_bytes, DEFAULT_MAX_LOG_BYTES)

\* Lines 302-341: the event logged for a body of bytes, if it has any
log_body(body, max) ==
    IF body = <<>> THEN <<>>
    ELSE LET truncated == Len(body) > max
             logged_len == IF Len(body) < max THEN Len(body) ELSE max
         IN <<[category |-> "response_body", phase |-> "body",
               size |-> Len(body), loggedBytes |-> logged_len,
               truncated |-> truncated,
               preview |-> SubSeq(body, 1, logged_len)]>>

\* a logger that puts the newest body event first
LogChunk_newest_first(e, opt, bytes) ==
    IF UnwrapOr(opt.log_bodies, TRUE)
    THEN [e EXCEPT !.body_log = log_body(bytes, max_log_bytes(opt)) \o @]
    ELSE e

\* Lines 1092-1101: the chunk is logged when body logging is on (the default)
LogChunk(e, opt, bytes) ==
    IF UnwrapOr(opt.log_bodies, TRUE)
    THEN [e EXCEPT !.body_log = @ \o log_body(bytes, max_log_bytes(opt))]
    ELSE e

\* a capture whose read of the body runs into the deadline of the attempt
OnBody_read_deadline(e, opt, o) ==
    CASE o.t = "chunk" ->
            LET e1 == LogChunk(e, opt, o.bytes)
                e2 == StoreChunk(e1, stream_to_file_threshold(opt), o.bytes)
            IN IF IsSome(e2.temp) /\ o.io # "ok"
               THEN Finish([e1 EXCEPT !.temp_file =
                                IF o.io = "nofile" THEN @ ELSE "open"],
                           Err("IoError"))
               ELSE [e2 EXCEPT !.chunks = e.chunks + 1,
                               !.temp_file = IF IsSome(e2.temp) THEN "open"
                                             ELSE @,
                               !.received = e.received \o o.bytes]
      [] o.t = "bodyerr" -> Finish(e, Err("Timeout"))
      [] OTHER -> IF IsSome(e.temp) /\ o.io = "fail"
                  THEN Finish(e, Err("IoError"))
                  ELSE Finish(e, Captured(e))

\* Lines 1089-1222: one item of the body stream. A chunk is logged, then
\* stored. A chunk that goes to the temp file, and the keep of the file at
\* the end, can fail with IoError.
OnBody(e, opt, o) ==
    CASE o.t = "chunk" ->
            LET e1 == LogChunk(e, opt, o.bytes)
                e2 == StoreChunk(e1, stream_to_file_threshold(opt), o.bytes)
            IN IF IsSome(e2.temp) /\ o.io # "ok"
               THEN Finish([e1 EXCEPT !.temp_file =
                                IF o.io = "nofile" THEN @ ELSE "open"],
                           Err("IoError"))
               ELSE [e2 EXCEPT !.chunks = e.chunks + 1,
                               !.temp_file = IF IsSome(e2.temp) THEN "open"
                                             ELSE @,
                               !.received = e.received \o o.bytes]
      [] o.t = "bodyerr" -> Finish(e, Err("HttpError"))
      [] OTHER -> IF IsSome(e.temp) /\ o.io = "fail"
                  THEN Finish(e, Err("IoError"))
                  ELSE Finish(e, Captured(e))

\* What the awaited operation of the execute future can yield
Awaited(e) ==
    CASE e.stage = "start" -> {NoIO}
      [] e.stage \in {"send", "fallback"} ->
            IF e.sent.uri.scheme = NoPart
            THEN {[t |-> "err", h2 |-> FALSE, proto |-> FALSE,
                   rebuild |-> "ok"]}
            ELSE Responses \cup CaptureResponses \cup TransportErrors
                    \cup RebuildErrors \cup Timeouts
      [] e.stage = "body" ->
            {o \in BodyEvents :
                o.t = "chunk" => /\ e.chunks < e.body_chunks
                                 /\ o.io = "nofile" => e.temp = None}
      [] OTHER -> {}

\* One poll of the execute future whose awaited operation yields o
ExecPoll(e, opt, o) ==
    CASE o = Pending -> e
      [] e.stage = "start" -> ExecuteStart(e, opt)
      [] e.stage = "send" -> OnPrimary(e, opt, o)
      [] e.stage = "fallback" -> OnFallback(e, opt, o)
      [] OTHER -> OnBody(e, opt, o)

----------------------------------------------------------------------------
(* send_http_request: lib.rs 116-138 *)

\* a select that does not poll the cancellation branch once execute has
\* been polled
select_no_recheck(order, is_cancelled, e, opt, o) ==
    IF order = "cancelled_first" /\ is_cancelled
    THEN [exec |-> e, result |-> Err("UserCancelled")]
    ELSE LET e2 == ExecPoll(e, opt, o)
         IN IF e2.stage = "done" THEN [exec |-> e2, result |-> e2.out]
            ELSE [exec |-> e2, result |-> NoResult]

\* an execute future whose drop leaves its temp file in place
Dropped_file_left(e) == e

\* The select that ends by its cancelled branch drops the execute future,
\* and with it the NamedTempFile of handle_response (line 1086), whose drop
\* deletes the file.
Dropped(e) == [e EXCEPT !.temp_file = IF @ = "open" THEN "deleted" ELSE @]

\* tokio::select! { _ = token.cancelled() => Err(UserCancelled),
\*                  res = engine.execute(..) => res }
\* One poll of the select: the branches are polled in the (random) order
\* chosen by the macro and the first one found ready wins.  is_cancelled is
\* the state of the token, o what the operation awaited by execute yields.
select(order, is_cancelled, e, opt, o) ==
    IF order = "cancelled_first" /\ is_cancelled
    THEN [exec |-> Dropped(e), result |-> Err("UserCancelled")]
    ELSE LET e2 == ExecPoll(e, opt, o)
         IN IF e2.stage = "done" THEN [exec |-> e2, result |-> e2.out]
            ELSE IF is_cancelled
                 THEN [exec |-> Dropped(e2), result |-> Err("UserCancelled")]
                 ELSE [exec |-> e2, result |-> NoResult]

\* let token = manager::register(&request_id);
Start(r, opt) ==
    /\ pc[r] = "idle"
    /\ r = "c2" => pc["c1"] # "idle"
    /\ tokens' = register(tokens, opt.request_id, r)
    /\ opts' = [opts EXCEPT ![r] = opt]
    /\ pc' = [pc EXCEPT ![r] = "racing"]
    /\ UNCHANGED <<cancelled, exec, result, last, dns, ck, mp, lg, lk>>

\* The task of call r is polled: it was woken by its token or by the
\* operation execute awaits (the first poll needs no wake-up).
Poll(r, order, o) ==
    /\ pc[r] = "racing"
    /\ o \in Awaited(exec[r]) \cup {Pending}
    /\ o # Pending \/ r \in cancelled
    /\ LET s == select(order, r \in cancelled, exec[r], opts[r], o)
       IN /\ exec' = [exec EXCEPT ![r] = s.exec]
          /\ result' = [result EXCEPT ![r] = s.result]
          /\ pc' = [pc EXCEPT ![r] =
                       IF s.result = NoResult THEN "racing" ELSE "selected"]
    /\ UNCHANGED <<tokens, cancelled, opts, last, dns, ck, mp, lg, lk>>

\* a return that looks at the token once more after the select
Return_rechecking(r) ==
    /\ pc[r] = "selected"
    /\ LET m == remove(tokens, cancelled, opts[r].request_id)
       IN /\ tokens' = m.map
          /\ cancelled' = m.cancelled
    /\ pc' = [pc EXCEPT ![r] = "returned"]
    /\ result' = [result EXCEPT ![r] =
                     IF r \in cancelled THEN Err("UserCancelled") ELSE @]
    /\ UNCHANGED <<opts, exec, last, dns, ck, mp, lg, lk>>

\* manager::remove(&request_id); result
Return(r) ==
    /\ pc[r] = "selected"
    /\ LET m == remove(tokens, cancelled, opts[r].request_id)
       IN /\ tokens' = m.map
          /\ cancelled' = m.cancelled
    /\ pc' = [pc EXCEPT ![r] = "returned"]
    /\ UNCHANGED <<opts, exec, result, last, dns, ck, mp, lg, lk>>

\* lib.rs 181-195: the cancel_http_request command
CancelRequest(id) ==
    /\ LET c == cancel(tokens, cancelled, id)
       IN /\ cancelled' = c.cancelled
          /\ last' = [id |-> id, ret |-> c.ret,
                      res |-> cancel_http_request_inner(c.ret, id),
                      at |-> IF IsSome(tokens[id])
                             THEN pc[Unwrap(tokens[id])] ELSE "none"]
    /\ UNCHANGED <<tokens, pc, opts, exec, result, dns, ck, mp, lg, lk>>

SelectOrders == {"cancelled_first", "execute_first"}

Next ==
    \/ \E r \in Calls : \E opt \in RaceOptsOf(r) : Start(r, opt)
    \/ \E r \in Calls, order \in SelectOrders, o \in RaceOutcomes \cup {NoIO, Pending} :
          Poll(r, order, o)
    \/ \E r \in Calls : Return(r)
    \/ \E id \in Ids : CancelRequest(id)

Spec == Init /\ [][Next]_vars

\* One call, never cancelled, over every request and network outcome
NextExec ==
    \/ \E opt \in ExecOpts : Start("c1", opt)
    \/ \E o \in ExecOutcomes \cup {NoIO} : Poll("c1", "execute_first", o)
    \/ Return("c1")

ExecSpec == Init /\ [][NextExec]_vars

\* One call that is never cancelled and captures the body of a response
NextCapture ==
    \/ \E opt \in CaptureOpts : Start("c1", opt)
    \/ \E o \in CaptureOutcomes \cup {NoIO} : Poll("c1", "execute_first", o)
    \/ Return("c1")

CaptureSpec == Init /\ [][NextCapture]_vars

\* One call that captures the body of a response and can be cancelled at any
\* moment, an attempt of which can also run into its deadline
NextSpool ==
    \/ \E opt \in CaptureOpts : Start("c1", opt)
    \/ \E order \in SelectOrders :
          \E o \in CaptureOutcomes \cup Timeouts \cup {NoIO, Pending} :
             Poll("c1", order, o)
    \/ Return("c1")
    \/ CancelRequest("id1")

SpoolSpec == Init /\ [][NextSpool]_vars

\* One call over every request and network outcome that can be cancelled at
\* any moment. The runtime polls the task of the call again whenever the
\* operation it awaits or its token wakes it, and every awaited operation
\* yields in the end: a poll that makes progress, and the return after the
\* select, cannot stay possible for ever without being taken.
LiveOpts ==
    Opts({"id1"}, {"POST"}, {UriA},
         {None} \cup {Some(n) : n \in 0..MaxRedirects}, Versions,
         {"ok", "BadRequest"}, {{}}, {"data"})
LiveOutcomes ==
    {o \in ExecOutcomes : o.t = "resp" => o.status \in {200, 302, 303}}

NextLive ==
    \/ \E opt \in LiveOpts : Start("c1", opt)
    \/ \E order \in SelectOrders :
          \E o \in LiveOutcomes \cup {NoIO, Pending} : Poll("c1", order, o)
    \/ Return("c1")
    \/ CancelRequest("id1")

Fairness ==
    /\ WF_vars(\E order \in SelectOrders :
                  \E o \in LiveOutcomes \cup {NoIO, Pending} :
                     Poll("c1", order, o))
    /\ WF_vars(Return("c1"))

LiveSpec == Init /\ [][NextLive]_vars /\ Fairness

\* One call that is never cancelled, over the requests whose headers and
\* options vary
NextOption ==
    \/ \E opt \in OptionOpts : Start("c1", opt)
    \/ \E o \in OptionOutcomes \cup {NoIO} : Poll("c1", "execute_first", o)
    \/ Return("c1")

OptionSpec == Init /\ [][NextOption]_vars

----------------------------------------------------------------------------
(* DNS override: hyper_engine/connector.rs *)

default_port_for_scheme(scheme) ==
    CASE scheme = "https" -> Some(443)
      [] scheme = "http" -> Some(80)
      [] OTHER -> None

\* Texts are sequences of tokens: a token is a character (" ", "=", ":",
\* a digit, a letter) or a word standing for its characters, written in
\* some letter case. No text made of several tokens spells another word.
to_ascii_lowercase(c) ==
    CASE c = "A" -> "a"
      [] c = "Multipart/Form-Data" -> "multipart/form-data"
      [] c = "Boundary=" -> "boundary="
      [] c \in {"Domain", "DOMAIN"} -> "domain"
      [] c = "Path" -> "path"
      [] c = "Max-Age" -> "max-age"
      [] c \in {"SameSite", "SAMESITE"} -> "samesite"
      [] c \in {"Secure", "SECURE"} -> "secure"
      [] c \in {"HttpOnly", "HTTPONLY"} -> "httponly"
      [] c = "Expires" -> "expires"
      [] c = "Foo" -> "foo"
      [] c = "Bar" -> "bar"
      [] c = "Baz" -> "baz"
      [] c \in {"Lax", "lAx"} -> "lax"
      [] c \in {"Strict", "STRICT"} -> "strict"
      [] c \in {"None", "NONE"} -> "none"
      [] c = "Experimental" -> "experimental"
      [] OTHER -> c

\* a comparison that tells upper case from lower case
eq_ignore_ascii_case_exact(a, b) == a = b

\* str::eq_ignore_ascii_case
eq_ignore_ascii_case(a, b) ==
    /\ Len(a) = Len(b)
    /\ \A i \in 1..Len(a) : to_ascii_lowercase(a[i]) = to_ascii_lowercase(b[i])

\* connector.rs 58-81: the socket that replaces lookups of the target host.
\* A blank ip_override counts as absent; text that is no IP address is
\* refused with BadRequest.
override_socket_of(ip_override, scheme, port) ==
    IF ip_override = None \/ Unwrap(ip_override).blank THEN [ok |-> TRUE,
                                                             socket |-> None]
    ELSE IF Unwrap(ip_override).ip = None THEN [ok |-> FALSE]
    ELSE [ok |-> TRUE,
          socket |-> Some(SocketAddr(
              Unwrap(Unwrap(ip_override).ip),
              UnwrapOr(port, UnwrapOr(default_port_for_scheme(scheme), 80))))]

\* build_connector creates the resolver for the host of the request URI
BuildConnector(host, scheme, port, ip_override) ==
    /\ dns = NoResolver
    /\ LET s == override_socket_of(ip_override, scheme, port)
       IN dns' = IF s.ok
                 THEN [built |-> "yes", target_host |-> host,
                       override_socket |-> s.socket, lookup |-> None,
                       system |-> None, answer |-> None]
                 ELSE [built |-> "BadRequest"]
    /\ UNCHANGED <<tokens, cancelled, pc, opts, exec, result, last, ck, mp, lg, lk>>

\* OverrideResolver::call (223-334): sys is what GaiResolver answers if it is
\* asked; system records whether it was asked
call(resolver, name, sys) ==
    IF /\ IsSome(resolver.override_socket)
       /\ eq_ignore_ascii_case(name, resolver.target_host)
    THEN [resolver EXCEPT
            !.lookup = Some(name), !.system = None,
            !.answer = Some([ok |-> TRUE,
                             addrs |-> <<Unwrap(resolver.override_socket)>>])]
    ELSE [resolver EXCEPT !.lookup = Some(name), !.system = Some(sys),
                          !.answer = Some(sys)]

\* The connector resolves a name
Lookup(name, sys) ==
    /\ dns.built = "yes"
    /\ dns' = call(dns, name, sys)
    /\ UNCHANGED <<tokens, cancelled, pc, opts, exec, result, last, ck, mp, lg, lk>>

NextResolver ==
    \/ \E host \in Names, scheme \in Schemes, port \in Ports,
          ip \in IpOverrides : BuildConnector(host, scheme, port, ip)
    \/ \E name \in Names, sys \in SystemAnswers : Lookup(name, sys)

ResolverSpec == Init /\ [][NextResolver]_vars

----------------------------------------------------------------------------
(* Set-Cookie parsing: http_client/cookies.rs *)

to_lowercase_text(s) == [i \in DOMAIN s |-> to_ascii_lowercase(s[i])]

RECURSIVE digits_value(_)
digits_value(s) ==
    IF s = <<>> THEN 0
    ELSE 10 * digits_value(SubSeq(s, 1, Len(s) - 1))
            + (IF s[Len(s)] = "1" THEN 1 ELSE 0)

\* str::parse::<i64>: an optional sign and at least one digit
parse_i64(s) ==
    LET signed == s # <<>> /\ Head(s) \in {"-", "+"}
        ds == IF signed THEN Tail(s) ELSE s
    IN IF ds = <<>> \/ \E i \in DOMAIN ds : ds[i] \notin Digits THEN None
       ELSE Some(IF signed /\ Head(s) = "-" THEN 0 - digits_value(ds)
                 ELSE digits_value(ds))

\* parse_cookie_expires followed by to_rfc3339: the token "date" stands for a
\* text in one of the accepted formats
parse_cookie_expires(s) ==
    IF s = <<"date">> THEN Some(<<"rfc3339">>) ELSE None

\* a first segment that is split without trimming
parse_first_no_trim(first) ==
    LET eq == find(first, "=")
        name == IF eq = 0 THEN first ELSE SubSeq(first, 1, eq - 1)
        value == IF eq = 0 THEN <<>> ELSE SubSeq(first, eq + 1, Len(first))
    IN IF name = <<>> THEN None
       ELSE Some([name |-> name, value |-> value, domain |-> None,
                  path |-> None, expires |-> None, max_age |-> None,
                  secure |-> None, http_only |-> None, same_site |-> None])

\* Lines 8-28: the first segment gives the name and the value
parse_first(segment) ==
    LET first == trim(segment)
        eq == find(first, "=")
        name == trim(IF eq = 0 THEN first ELSE SubSeq(first, 1, eq - 1))
        value == trim(IF eq = 0 THEN <<>>
                      ELSE SubSeq(first, eq + 1, Len(first)))
    IN IF name = <<>> THEN None
       ELSE Some([name |-> name, value |-> value, domain |-> None,
                  path |-> None, expires |-> None, max_age |-> None,
                  secure |-> None, http_only |-> None, same_site |-> None])

\* Lines 74-79
normalize_same_site(val) ==
    LET lower == to_lowercase_text(val)
    IN CASE lower = <<"lax">> -> <<"Lax">>
         [] lower = <<"strict">> -> <<"Strict">>
         [] lower = <<"none">> -> <<"None">>
         [] OTHER -> lower

\* an attribute loop that compares the keys as they are written
parse_attribute_exact_keys(cookie, segment) ==
    LET seg == trim(segment)
        eq_pos == find(seg, "=")
        key == trim(SubSeq(seg, 1, eq_pos - 1))
        val == trim(SubSeq(seg, eq_pos + 1, Len(seg)))
    IN IF seg = <<>> THEN cookie
       ELSE IF seg = <<"secure">>
       THEN [cookie EXCEPT !.secure = Some(TRUE)]
       ELSE IF seg = <<"httponly">>
       THEN [cookie EXCEPT !.http_only = Some(TRUE)]
       ELSE IF eq_pos = 0 \/ key = <<>> \/ val = <<>> THEN cookie
       ELSE IF key = <<"domain">> THEN [cookie EXCEPT !.domain = Some(val)]
       ELSE IF key = <<"path">> THEN [cookie EXCEPT !.path = Some(val)]
       ELSE IF key = <<"expires">>
       THEN (IF IsSome(parse_cookie_expires(val))
             THEN [cookie EXCEPT !.expires = parse_cookie_expires(val)]
             ELSE cookie)
       ELSE IF key = <<"max-age">>
       THEN (IF IsSome(parse_i64(val))
             THEN [cookie EXCEPT !.max_age = parse_i64(val)]
             ELSE cookie)
       ELSE IF key = <<"samesite">>
       THEN [cookie EXCEPT !.same_site = Some(normalize_same_site(val))]
       ELSE cookie

\* Lines 30-88: one pass of the loop over the remaining segments. A key
\* without value counts only as Secure or HttpOnly; an attribute with an
\* empty key or an empty value changes nothing.
parse_attribute(cookie, segment) ==
    LET seg == trim(segment)
        eq_pos == find(seg, "=")
        key == to_lowercase_text(trim(SubSeq(seg, 1, eq_pos - 1)))
        val == trim(SubSeq(seg, eq_pos + 1, Len(seg)))
    IN IF seg = <<>> THEN cookie
       ELSE IF eq_ignore_ascii_case(seg, <<"secure">>)
       THEN [cookie EXCEPT !.secure = Some(TRUE)]
       ELSE IF eq_ignore_ascii_case(seg, <<"httponly">>)
       THEN [cookie EXCEPT !.http_only = Some(TRUE)]
       ELSE IF eq_pos = 0 \/ key = <<>> \/ val = <<>> THEN cookie
       ELSE IF key = <<"domain">> THEN [cookie EXCEPT !.domain = Some(val)]
       ELSE IF key = <<"path">> THEN [cookie EXCEPT !.path = Some(val)]
       ELSE IF key = <<"expires">>
       THEN (IF IsSome(parse_cookie_expires(val))
             THEN [cookie EXCEPT !.expires = parse_cookie_expires(val)]
             ELSE cookie)
       ELSE IF key = <<"max-age">>
       THEN (IF IsSome(parse_i64(val))
             THEN [cookie EXCEPT !.max_age = parse_i64(val)]
             ELSE cookie)
       ELSE IF key = <<"samesite">>
       THEN [cookie EXCEPT !.same_site = Some(normalize_same_site(val))]
       ELSE cookie

\* The first segments and the attribute segments that split(';') yields
FirstSegments ==
    {<<"a", "=", "b">>, <<" ", "a", " ", "=", " ", "b", " ">>, <<"a">>,
     <<"a", "=", "b", "=", "b">>, <<"a", "=">>,
     <<"=", "b">>, <<" ", "=", "b">>, <<" ">>, <<>>}

AttrSegments ==
    {<<>>, <<" ">>,
     <<" ", "Secure">>, <<"SECURE", " ">>, <<"Secure", "=", "1">>,
     <<" ", "HttpOnly">>, <<"HTTPONLY">>,
     <<" ", "Domain", "=", "x.com">>,
     <<"DOMAIN", " ", "=", " ", "x.com", " ">>, <<"Domain", "=", " ">>,
     <<" ", "Path", "=", "/">>,
     <<" ", "Max-Age", "=", "1", "0">>, <<"Max-Age", "=", "-", "1">>,
     <<"Max-Age", "=", "x.com">>,
     <<" ", "SameSite", "=", "Lax">>, <<"SAMESITE", "=", "lAx">>,
     <<"SameSite", "=", "STRICT", " ">>, <<"SameSite", "=", "NONE">>,
     <<"SameSite", "=", "Experimental">>, <<"SameSite", "=">>,
     <<" ", "Foo", "=", "Bar">>, <<"Baz">>, <<"=", "x.com">>,
     <<"Expires", "=", "date">>, <<"Expires", "=", "Bar">>}

ParseFirst(first) ==
    /\ ck = NoParse
    /\ ck' = LET c == parse_first(first)
             IN IF c = None THEN [at |-> "done", result |-> None, n |-> 0]
                ELSE [at |-> "attrs", cookie |-> Unwrap(c), n |-> 0]
    /\ UNCHANGED <<tokens, cancelled, pc, opts, exec, result, last, dns, mp, lg, lk>>

ParseSegment(segment) ==
    /\ ck.at = "attrs"
    /\ ck.n < MaxSegments
    /\ ck' = [ck EXCEPT !.cookie = parse_attribute(ck.cookie, segment),
                        !.n = ck.n + 1]
    /\ UNCHANGED <<tokens, cancelled, pc, opts, exec, result, last, dns, mp, lg, lk>>

\* Line 89: the segments are used up
ParseEnd ==
    /\ ck.at = "attrs"
    /\ ck' = [at |-> "done", result |-> Some(ck.cookie), n |-> ck.n]
    /\ UNCHANGED <<tokens, cancelled, pc, opts, exec, result, last, dns, mp, lg, lk>>

NextCookie ==
    \/ \E first \in FirstSegments : ParseFirst(first)
    \/ \E segment \in AttrSegments : ParseSegment(segment)
    \/ ParseEnd

CookieSpec == Init /\ [][NextCookie]_vars

----------------------------------------------------------------------------
(* Multipart bodies: HyperEngine::build_body, hyper_engine.rs 342-475 *)
(* A text is a sequence of tokens; a body or a part's content is a       *)
(* sequence of lines, each line being the text between two CRLF.         *)

Text(name, value) ==
    [kind |-> "text", name |-> name, content |-> value, file_path |-> "",
     file_name |-> None, content_type |-> None, readable |-> TRUE]

\* A file part together with what fs::read finds at its path
File(name, file_path, file_name, content_type, readable, content) ==
    [kind |-> "file", name |-> name, content |-> content,
     file_path |-> file_path, file_name |-> file_name,
     content_type |-> content_type, readable |-> readable]

MultipartParts ==
    {Text(<<"f">>, << <<"v">> >>),
     Text(<<"f">>, << <<>> >>),
     Text(<<"g", "\"">>, << <<"v">>, <<"--", "X">>, <<"v">> >>),
     Text(<<"f">>, << <<"v">>, <<"--", "X", "--">> >>),
     File(<<"f">>, "/d/a.txt", None, None, TRUE, << <<"v">> >>),
     File(<<"g", "\"">>, "/", Some("é.txt"), Some("image/png"), TRUE,
          << <<"v">>, <<"v">> >>),
     File(<<"f">>, "/d/a.txt", Some("b\".bin"), Some(" "), TRUE,
          << <<"--", "X">> >>),
     File(<<"f">>, "/d/a.txt", None, None, FALSE, << <<"v">> >>)}

RECURSIVE SeqsUpTo(_, _)
SeqsUpTo(S, n) ==
    IF n = 0 THEN {<<>>}
    ELSE LET shorter == SeqsUpTo(S, n - 1)
         IN shorter \cup {Append(s, x) : s \in shorter, x \in S}

\* The Content-Type header of the caller, if any
ContentTypes ==
    {None,
     Some(<<"text/plain">>),
     Some(<<"multipart/form-data">>),
     Some(<<"Multipart/Form-Data", ";", " ", "Boundary=", "X">>),
     Some(<<"multipart/form-data", ";", " ", "boundary=", "\"", "X", "\"",
            ";", " ", "charset=utf-8">>),
     Some(<<"multipart/form-data", ";", " ", "boundary=">>)}

\* uuid::Uuid::new_v4().simple()
Uuids == {"u1", "u2"}

contains(s, c) == \E i \in DOMAIN s : s[i] = c

\* str::trim_matches('"')
RECURSIVE trim_matches_quote(_)
trim_matches_quote(s) ==
    IF s # <<>> /\ Head(s) = "\"" THEN trim_matches_quote(Tail(s))
    ELSE IF s # <<>> /\ s[Len(s)] = "\""
    THEN trim_matches_quote(SubSeq(s, 1, Len(s) - 1))
    ELSE s

\* Lines 349-364: the boundary parameter of the caller's Content-Type
boundary_candidate(ct) ==
    IF ct = None THEN None
    ELSE LET s == Unwrap(ct)
             lower == to_lowercase_text(s)
             idx == find(lower, "boundary=")
             raw == SubSeq(s, idx + 1, Len(s))
             semi == find(raw, ";")
             first == IF semi = 0 THEN raw ELSE SubSeq(raw, 1, semi - 1)
             candidate == trim_matches_quote(trim(first))
         IN IF contains(lower, "multipart/form-data") /\ idx # 0
                  /\ candidate # <<>>
            THEN Some(candidate)
            ELSE None

\* Lines 365-368
generated_boundary(uuid) == <<"----KnurlFormBoundary", uuid>>

select_boundary(ct, uuid) ==
    IF IsSome(boundary_candidate(ct)) THEN Unwrap(boundary_candidate(ct))
    ELSE generated_boundary(uuid)

\* Lines 370-403: the Content-Type header that is sent
content_type_sent(ct, boundary) ==
    IF ct # None /\ contains(to_lowercase_text(Unwrap(ct)),
                            "multipart/form-data")
    THEN IF contains(to_lowercase_text(Unwrap(ct)), "boundary=")
         THEN Unwrap(ct)
         ELSE Unwrap(ct) \o <<";", " ", "boundary=">> \o boundary
    ELSE <<"multipart/form-data", ";", " ", "boundary=">> \o boundary

\* str::replace('"', "\\\"")
escape_quotes(s) ==
    [i \in DOMAIN s |-> IF s[i] = "\"" THEN "\\\"" ELSE s[i]]

\* Path::file_name of the paths used here
path_file_name(file_path) ==
    CASE file_path = "/d/a.txt" -> Some("a.txt")
      [] OTHER -> None

is_ascii(file_name) == file_name # "é.txt"

utf8_percent_encode(file_name) ==
    CASE file_name = "é.txt" -> "%C3%A9%2Etxt"
      [] file_name = "a.txt" -> "a%2Etxt"
      [] file_name = "b\".bin" -> "b%22%2Ebin"
      [] OTHER -> file_name

\* mime_guess::from_path(..).first_or_octet_stream()
mime_guess(file_name) ==
    CASE file_name \in {"a.txt", "é.txt"} -> "text/plain"
      [] OTHER -> "application/octet-stream"

escape_quotes_name(file_name) ==
    CASE file_name = "b\".bin" -> "b\\\".bin"
      [] OTHER -> file_name

\* Lines 428-434
part_file_name(part) ==
    IF IsSome(part.file_name) THEN Unwrap(part.file_name)
    ELSE IF IsSome(path_file_name(part.file_path))
    THEN Unwrap(path_file_name(part.file_path))
    ELSE "file"

\* Lines 446-452
part_content_type(part) ==
    IF IsSome(part.content_type) /\ trim(<<Unwrap(part.content_type)>>) # <<>>
    THEN Unwrap(part.content_type)
    ELSE mime_guess(part_file_name(part))

delimiter(boundary) == <<"--">> \o boundary
close_delimiter(boundary) == <<"--">> \o boundary \o <<"--">>

\* Lines 410-417 and 454-459: the Content-Disposition line of a part
disposition(part) ==
    <<"Content-Disposition: form-data; name=\"">>
        \o escape_quotes(part.name) \o <<"\"">>
        \o (IF part.kind = "file"
            THEN <<"; filename=\"", escape_quotes_name(part_file_name(part)),
                   "\"">>
                 \o (IF is_ascii(part_file_name(part)) THEN <<>>
                     ELSE <<"; filename*=", "UTF-8", "''",
                            utf8_percent_encode(part_file_name(part))>>)
            ELSE <<>>)

\* Lines 407-470: the lines that one part adds to the buffer
part_lines(boundary, part) ==
    <<delimiter(boundary), disposition(part)>>
        \o (IF part.kind = "file"
            THEN << <<"Content-Type: ", part_content_type(part)>> >>
            ELSE <<>>)
        \o << <<>> >> \o part.content

RECURSIVE assemble(_, _)
assemble(boundary, parts) ==
    IF parts = <<>> THEN <<close_delimiter(boundary)>>
    ELSE part_lines(boundary, Head(parts)) \o assemble(boundary, Tail(parts))

\* build_body for multipart_parts: the boundary, the Content-Type header and
\* the body, or the IoError of the first file that cannot be read
BuildBody(parts, ct, uuid) ==
    /\ mp = NoBody
    /\ mp' = LET boundary == select_boundary(ct, uuid)
             IN IF \E i \in DOMAIN parts : ~parts[i].readable
                THEN [built |-> "err", error |-> Err("IoError"),
                      parts |-> parts, ct |-> ct]
                ELSE [built |-> "ok", parts |-> parts, ct |-> ct,
                      boundary |-> boundary,
                      content_type |-> content_type_sent(ct, boundary),
                      body |-> assemble(boundary, parts)]
    /\ UNCHANGED <<tokens, cancelled, pc, opts, exec, result, last, dns, ck, lg, lk>>

NextMultipart ==
    \E parts \in SeqsUpTo(MultipartParts, MaxParts), ct \in ContentTypes,
       uuid \in Uuids :
        BuildBody(parts, ct, uuid)

MultipartSpec == Init /\ [][NextMultipart]_vars

----------------------------------------------------------------------------
(* Log events of the headers and cookies: hyper_engine.rs 257-293, 499-506, *)
(* 1139-1181. Two executions of one request run side by side; they differ   *)
(* in the values of their Authorization, Cookie and Set-Cookie headers only. *)

\* str::split: the segments of s between the tokens c
RECURSIVE split(_, _)
split(s, c) ==
    LET pos == find(s, c)
    IN IF pos = 0 THEN <<s>>
       ELSE <<SubSeq(s, 1, pos - 1)>> \o split(SubSeq(s, pos + 1, Len(s)), c)

RECURSIVE parse_attributes(_, _)
parse_attributes(cookie, segments) ==
    IF segments = <<>> THEN cookie
    ELSE parse_attributes(parse_attribute(cookie, Head(segments)),
                          Tail(segments))

\* cookies.rs 7-90
parse_set_cookie_header(header_value) ==
    LET segments == split(header_value, ";")
        first == parse_first(Head(segments))
    IN IF first = None THEN None
       ELSE Some(parse_attributes(Unwrap(first), Tail(segments)))

\* Values of the sensitive headers, of different lengths
Secrets == {<<"x">>, <<"y">>, <<"y", "y">>}
RequestHeaderNames == {"accept", "authorization", "cookie"}

Header(name, value) == [name |-> name, value |-> value]

\* The header map of a request with these header names
request_headers(names, secret) ==
    (IF "accept" \in names THEN <<Header("accept", <<"*/*">>)>> ELSE <<>>)
    \o (IF "authorization" \in names
        THEN <<Header("authorization", <<"Bearer", " ">> \o secret)>>
        ELSE <<>>)
    \o (IF "cookie" \in names
        THEN <<Header("cookie", <<"sid", "=">> \o secret)>> ELSE <<>>)

\* The header map of the response, with or without a Set-Cookie header
response_headers(sets_cookie, secret) ==
    <<Header("content-type", <<"text/plain">>)>>
    \o (IF sets_cookie
        THEN <<Header("set-cookie",
                      <<"sid", "=">> \o secret \o <<";", " ", "HttpOnly">>)>>
        ELSE <<>>)

\* The decimal text of a length
LenToken(n) == <<"0", "1", "2", "3", "4", "5", "6", "7", "8", "9">>[n + 1]

\* Lines 294-299
header_to_string(header) == <<header.name, ": ">> \o header.value

\* Lines 264-291: the log event of one header
log_header(header, redact, phase, prefix) ==
    LET is_redacted == redact /\ header.name \in {"authorization", "cookie",
                                                  "set-cookie"}
        line == IF is_redacted
                THEN <<header.name, ": [REDACTED:",
                       LenToken(Len(header.value)), "]">>
                ELSE header_to_string(header)
    IN [category |-> "http", phase |-> phase,
        message |-> <<prefix, " ">> \o line,
        detail |-> <<header.name>> \o line
                      \o <<IF is_redacted THEN "redacted" ELSE "plain">>,
        length |-> Len(header.value)]

\* Lines 257-293
log_headers(headers, redact, phase, prefix) ==
    [i \in DOMAIN headers |-> log_header(headers[i], redact, phase, prefix)]

\* Lines 499-506: the cookies of the Set-Cookie headers that parse
RECURSIVE cookies_from_headers(_)
cookies_from_headers(headers) ==
    IF headers = <<>> THEN <<>>
    ELSE LET c == IF Head(headers).name = "set-cookie"
                  THEN parse_set_cookie_header(Head(headers).value)
                  ELSE None
         IN (IF c = None THEN <<>> ELSE <<Unwrap(c)>>)
                \o cookies_from_headers(Tail(headers))

\* Lines 1139-1181: the log event of one cookie, with its name and value
log_cookie(cookie) ==
    [category |-> "cookie", phase |-> "set",
     message |-> <<"Added cookie ">> \o cookie.name \o <<"=\"">>
                    \o cookie.value \o <<"\"">>,
     detail |-> cookie.name \o <<"=">> \o cookie.value,
     length |-> 0]

log_cookies(headers) ==
    LET cookies == cookies_from_headers(headers)
    IN [i \in DOMAIN cookies |-> log_cookie(cookies[i])]

\* The two executions get their requests; redact is redact_sensitive
LogBegin(redact, names, sets_cookie, secret1, secret2) ==
    /\ lg = NoLog
    /\ lg' = [at |-> "request", redact |-> redact,
              request |-> <<request_headers(names, secret1),
                            request_headers(names, secret2)>>,
              response |-> <<response_headers(sets_cookie, secret1),
                             response_headers(sets_cookie, secret2)>>,
              logs |-> << <<>>, <<>> >>]
    /\ UNCHANGED <<tokens, cancelled, pc, opts, exec, result, last, dns, ck,
                   mp, lk>>

\* Lines 572-578: the headers of the request are logged
LogRequestHeaders ==
    /\ lg.at = "request"
    /\ lg' = [lg EXCEPT
                !.at = "response",
                !.logs = [i \in 1..2 |->
                            lg.logs[i] \o log_headers(lg.request[i],
                                                      lg.redact,
                                                      "request_header", ">")]]
    /\ UNCHANGED <<tokens, cancelled, pc, opts, exec, result, last, dns, ck,
                   mp, lk>>

\* Line 1062: the headers of the terminal response are logged
LogResponseHeaders ==
    /\ lg.at = "response"
    /\ lg' = [lg EXCEPT
                !.at = "cookies",
                !.logs = [i \in 1..2 |->
                            lg.logs[i] \o log_headers(lg.response[i],
                                                      lg.redact,
                                                      "response_header",
                                                      "<")]]
    /\ UNCHANGED <<tokens, cancelled, pc, opts, exec, result, last, dns, ck,
                   mp, lk>>

\* Lines 1137-1181: the cookies of the response are logged after its body
LogCookies ==
    /\ lg.at = "cookies"
    /\ lg' = [lg EXCEPT
                !.at = "done",
                !.logs = [i \in 1..2 |->
                            lg.logs[i] \o log_cookies(lg.response[i])]]
    /\ UNCHANGED <<tokens, cancelled, pc, opts, exec, result, last, dns, ck,
                   mp, lk>>

NextLog ==
    \/ \E redact \in BOOLEAN, names \in SUBSET RequestHeaderNames,
          sets_cookie \in BOOLEAN, secret1 \in Secrets, secret2 \in Secrets :
            LogBegin(redact, names, sets_cookie, secret1, secret2)
    \/ LogRequestHeaders
    \/ LogResponseHeaders
    \/ LogCookies

LogSpec == Init /\ [][NextLog]_vars

----------------------------------------------------------------------------
(* The registry mutex: manager.rs 5-31 and lib.rs 125-137, 181-195.        *)
(* A task that calls register, cancel or remove first waits for the mutex  *)
(* (tokens().lock()), then runs the body of the function, and gives the    *)
(* mutex back when the function returns and its guard is dropped.          *)

\* The function a task calls from this position, if it calls one
lock_call(task, at) ==
    CASE at = "idle" /\ task \in SendTasks -> Some("register")
      [] at = "idle" /\ task \in CancelTasks -> Some("cancel")
      [] at = "selected" -> Some("remove")
      [] OTHER -> None

\* Where a task stands while it runs the body of the function
locked_in(function) ==
    CASE function = "register" -> "register_locked"
      [] function = "cancel" -> "cancel_locked"
      [] OTHER -> "remove_locked"

\* Where a task stands after the function has returned
after_call(at) ==
    CASE at = "register_locked" -> "racing"
      [] OTHER -> "returned"

\* The task calls register, cancel or remove and reaches tokens().lock()
EnterCall(task) ==
    /\ IsSome(lock_call(task, lk.at[task]))
    /\ lk' = [lk EXCEPT !.at[task] = Unwrap(lock_call(task, lk.at[task]))]
    /\ UNCHANGED <<tokens, cancelled, pc, opts, exec, result, last, dns, ck,
                   mp, lg>>

\* Mutex::lock returns: the mutex was free and the task holds it now
LockAcquire(task) ==
    /\ lk.at[task] \in {"register", "cancel", "remove"}
    /\ lk.holder = None
    /\ lk' = [lk EXCEPT !.holder = Some(task),
                        !.at[task] = locked_in(lk.at[task])]
    /\ UNCHANGED <<tokens, cancelled, pc, opts, exec, result, last, dns, ck,
                   mp, lg>>

\* a register whose guard is still alive while the task races
LockRelease_guard_kept(task) ==
    /\ lk.at[task] \in {"register_locked", "cancel_locked",
                        "remove_locked"}
    /\ lk.holder = Some(task)
    /\ lk' = [lk EXCEPT !.holder = IF lk.at[task] = "register_locked"
                                   THEN lk.holder ELSE None,
                        !.at[task] = after_call(lk.at[task])]
    /\ UNCHANGED <<tokens, cancelled, pc, opts, exec, result, last, dns, ck,
                   mp, lg>>

\* The body of the function has run and the function returns: the guard is
\* dropped (manager.rs 15-16, 26-27, 31-32)
LockRelease(task) ==
    /\ lk.at[task] \in {"register_locked", "cancel_locked",
                        "remove_locked"}
    /\ lk.holder = Some(task)
    /\ lk' = [lk EXCEPT !.holder = None,
                        !.at[task] = after_call(lk.at[task])]
    /\ UNCHANGED <<tokens, cancelled, pc, opts, exec, result, last, dns, ck,
                   mp, lg>>

\* lib.rs 129-134: the select! of a task that was suspended in it (on the
\* connect, a send, a body chunk or the cancel signal) completes
SelectDone(task) ==
    /\ lk.at[task] = "racing"
    /\ lk' = [lk EXCEPT !.at[task] = "selected"]
    /\ UNCHANGED <<tokens, cancelled, pc, opts, exec, result, last, dns, ck,
                   mp, lg>>

NextLock ==
    \/ \E task \in LockTasks : EnterCall(task)
    \/ \E task \in LockTasks : LockAcquire(task)
    \/ \E task \in LockTasks : LockRelease(task)
    \/ \E task \in SendTasks : SelectDone(task)

LockSpec == Init /\ [][NextLock]_vars

----------------------------------------------------------------------------
(* Properties of the registry and of the select (checked under Spec) *)

IdOf(r) == opts[r].request_id
Registered(r) == pc[r] \in {"racing", "selected"}
Polled(r) == exec'[r] # exec[r] \/ pc'[r] # pc[r]

\* C1 as stated: once cancel(id) has cancelled the token of a call whose
\* execute has not completed, the call can only end with UserCancelled.
Suspended(r) ==
    pc[r] = "racing" /\ exec[r].stage \in {"send", "fallback", "body"}

C1_CancelAlwaysWins ==
    [][\A r \in Calls :
          (Suspended(r) /\ r \in cancelled /\ pc'[r] # "racing")
              => result'[r].kind = "UserCancelled"]_vars

\* C1 amended: once the token of a racing call is cancelled, the next poll
\* of its task ends the select; the result is UserCancelled unless execute
\* itself completes in that poll, and then it is execute's own result.
\* UserCancelled is produced for a cancelled token only.
C1_CancelEndsRaceAtNextPoll ==
    [][\A r \in Calls :
          /\ (pc[r] = "racing" /\ r \in cancelled /\ Polled(r))
                => /\ pc'[r] = "selected"
                   /\ \/ result'[r].kind = "UserCancelled"
                      \/ \E o \in Awaited(exec[r]) :
                            LET e2 == ExecPoll(exec[r], opts[r], o)
                            IN e2.stage = "done" /\ result'[r] = e2.out
          /\ (pc[r] = "racing" /\ result'[r].kind = "UserCancelled")
                => r \in cancelled]_vars

C1_Witness ==
    \E r \in Calls :
        /\ pc[r] = "selected"
        /\ result[r].kind = "UserCancelled"
        /\ last.id = IdOf(r) /\ last.ret /\ last.at = "racing"

\* C2: when a send_http_request call returns, whatever its outcome, the
\* registry holds no entry under its request id.
C2_NoEntryOnReturn ==
    [][\A r \in Calls :
          (pc[r] # "returned" /\ pc'[r] = "returned")
              => tokens'[IdOf(r)] = None]_vars

C2_Witness ==
    /\ pc["c1"] = "returned" /\ result["c1"].kind = "Ok"
    /\ pc["c2"] = "returned" /\ result["c2"].kind = "Timeout"
    /\ \A id \in Ids : tokens[id] = None

\* C3 as stated: cancel(id) returns true exactly when a call with that id
\* is registered and its execute has not completed.
C3_TrueIffInFlight ==
    [][\A id \in Ids :
          CancelRequest(id)
              => (last'.ret <=> \E r \in Calls :
                                   pc[r] = "racing" /\ IdOf(r) = id)]_vars

DistinctIds ==
    \A r, q \in Calls :
        (r # q /\ pc[r] # "idle" /\ pc[q] # "idle") => IdOf(r) # IdOf(q)

\* C3 amended: cancel(id) returns true exactly when the registry holds an
\* entry under id at the time of the call; while the calls use distinct ids
\* that is exactly when a call with that id has registered and not yet
\* removed its entry (execute may already have completed).
C3_TrueIffEntry ==
    [][\A id \in Ids :
          CancelRequest(id)
              => /\ last'.ret <=> IsSome(tokens[id])
                 /\ DistinctIds
                       => (last'.ret <=> \E r \in Calls :
                                            Registered(r) /\ IdOf(r) = id)]_vars

C3_Witness ==
    /\ last.id \in Ids /\ last.ret /\ last.at = "selected"
    /\ \E r \in Calls : tokens[last.id] = Some(r) /\ r \in cancelled

\* C4: cancel(id) for an id without registry entry returns false, leaves
\* the map and every token as they were, and cancel_http_request reports
\* BadRequest naming the id.
C4_CancelUnknownIsNoop ==
    [][\A id \in Ids :
          (tokens[id] = None /\ CancelRequest(id))
              => /\ ~last'.ret
                 /\ last'.res = [kind |-> "BadRequest", id |-> id]
                 /\ tokens' = tokens
                 /\ cancelled' = cancelled]_vars

C4_Witness ==
    /\ last.id \in Ids /\ ~last.ret /\ last.at = "none"
    /\ tokens[last.id] = None
    /\ \E r \in Calls : pc[r] = "racing" /\ r \notin cancelled

\* C5: register(id) stores the new, uncancelled token under id in place of
\* any token stored there; cancel(id) cancels at most the token stored
\* under id, and a token that is no longer stored is never cancelled.
C5_RegisterReplaces ==
    [][/\ \A r \in Calls :
             (pc[r] = "idle" /\ pc'[r] = "racing")
                 => tokens'[opts'[r].request_id] = Some(r) /\ r \notin cancelled'
       /\ \A id \in Ids :
             CancelRequest(id)
                 => cancelled' \ cancelled \subseteq
                        {t \in Calls : tokens[id] = Some(t)}
       /\ \A t \in Calls :
             (pc[t] # "idle" /\ t \notin cancelled
                 /\ \A id \in Ids : tokens[id] # Some(t))
                 => t \notin cancelled']_vars

C5_Witness ==
    \E old, new \in Calls :
        /\ old # new /\ IdOf(old) = IdOf(new)
        /\ pc[old] = "racing" /\ tokens[IdOf(new)] = Some(new)
        /\ new \in cancelled /\ old \notin cancelled
        /\ last.id = IdOf(new) /\ last.ret

\* C6: remove(id) deletes the entry without signalling: the cancelled
\* tokens are the same afterwards, the id is not in the registry, and a
\* cancel(id) that follows returns false and cancels nothing.
C6_RemoveDoesNotSignal ==
    [][\A r \in Calls :
          (pc[r] = "selected" /\ pc'[r] = "returned")
              => /\ cancelled' = cancelled
                 /\ tokens'[IdOf(r)] = None
                 /\ cancel(tokens', cancelled', IdOf(r))
                       = [ret |-> FALSE, cancelled |-> cancelled]]_vars

C6_Witness ==
    \E r \in Calls :
        /\ pc[r] = "returned" /\ r \notin cancelled
        /\ tokens[IdOf(r)] = None
        /\ last.id = IdOf(r) /\ ~last.ret

\* C7: a cancel raised after execute has completed does not change what
\* send_http_request returns: the result chosen by the select is returned.
C7_LateCancelIsNoop ==
    [][\A r \in Calls :
          pc[r] = "selected" => result'[r] = result[r]]_vars

C7_Witness ==
    /\ pc["c1"] = "returned" /\ pc["c2"] = "idle"
    /\ "c1" \in cancelled
    /\ last.id = IdOf("c1") /\ last.ret /\ last.at = "selected"
    /\ result["c1"].kind = "Ok"

----------------------------------------------------------------------------
(* Properties of the redirect / fallback loop (checked under ExecSpec) *)

Budget(r) == UnwrapOr(opts[r].max_redirects, 0)
Sending(r) == pc[r] = "racing" /\ exec[r].stage \in {"send", "fallback"}

\* C8: when the first response is not a redirect (status outside 300..399)
\* or the redirect budget is zero or unset, the execution has made exactly
\* one primary send and at most one fallback send, begins capture with that
\* response, and sends nothing more.
C8_OneAttemptWithoutRedirect ==
    [][\A r \in Calls :
          /\ (Sending(r) /\ exec[r].sends = 1 /\ exec'[r] # exec[r])
                => \A res \in Responses :
                      (/\ res.status \notin 300..399 \/ Budget(r) = 0
                       /\ Poll(r, "execute_first", res))
                          => /\ exec'[r].stage = "body"
                             /\ exec'[r].status = res.status
                             /\ exec'[r].sends = 1
                             /\ exec'[r].fallbacks <= 1
          /\ (pc[r] = "racing" /\ exec[r].stage = "body"
                 /\ exec'[r].stage # "done")
                => /\ exec'[r].stage = "body"
                   /\ exec'[r].sends = exec[r].sends
                   /\ exec'[r].fallbacks = exec[r].fallbacks]_vars

C8_Witness ==
    \E r \in Calls :
        /\ pc[r] = "racing" /\ exec[r].stage = "body"
        /\ Budget(r) = 0 /\ exec[r].status = 302
        /\ exec[r].sends = 1 /\ exec[r].fallbacks = 1

\* C9 as stated: one execution makes at most one fallback send in all.
C9_AtMostOneFallbackPerExecution ==
    \A r \in Calls : exec[r].fallbacks <= 1

\* C9 amended: each primary send (the first send and every redirect hop) is
\* followed by at most one fallback send, a fallback send is made only on
\* the failure of a primary send and is itself never retried, and a new
\* primary send is made only to follow a redirect, which uses up budget.
C9_OneFallbackPerSend ==
    [][\A r \in Calls :
          /\ exec'[r].fallbacks <= exec'[r].sends
          /\ Sending(r) =>
                exec[r].sends + exec[r].redirects_left <= Budget(r) + 1
          /\ (exec'[r].stage # "done"
                 /\ exec'[r].fallbacks # exec[r].fallbacks)
                => /\ exec[r].stage = "send"
                   /\ exec'[r].stage = "fallback"
                   /\ exec'[r].fallbacks = exec[r].fallbacks + 1
                   /\ exec'[r].sends = exec[r].sends
          /\ (Sending(r) /\ exec'[r].stage # "done"
                 /\ exec'[r].sends # exec[r].sends)
                => /\ exec'[r].sends = exec[r].sends + 1
                   /\ exec'[r].redirects_left = exec[r].redirects_left - 1
                   /\ exec'[r].stage = "send"]_vars

C9_Witness ==
    \E r \in Calls :
        /\ pc[r] = "racing" /\ exec[r].stage = "fallback"
        /\ exec[r].sends = 2 /\ exec[r].fallbacks = 2

\* C10: the method of the hop that follows a redirect is GET after a 303,
\* the current method after a 301 or 302 if that is GET or HEAD and GET
\* otherwise, and the current method after a 307 or 308.
C10_RedirectMethod ==
    [][\A r \in Calls :
          (Sending(r) /\ exec'[r].stage = "send"
              /\ exec'[r].sends # exec[r].sends)
          => \A res \in Responses :
              (/\ res.status \in {301, 302, 303, 307, 308}
               /\ Poll(r, "execute_first", res))
              => LET cur == exec[r].current_method
                     nxt == IF res.status = 303 THEN "GET"
                            ELSE IF res.status \in {301, 302}
                                 THEN (IF cur \in {"GET", "HEAD"} THEN cur
                                       ELSE "GET")
                                 ELSE cur
                 IN /\ exec'[r].current_method = nxt
                    /\ exec'[r].sent.via = "primary"
                    /\ exec'[r].sent.method = nxt]_vars

C10_Witness ==
    \E r \in Calls :
        /\ pc[r] = "racing" /\ exec[r].stage = "send"
        /\ exec[r].sends = 3
        /\ opts[r].method = "POST"
        /\ exec[r].sent.method = "GET"

\* C11 as stated: after a followed 307 or 308 the next hop is sent with the
\* method and the body of the current hop, whatever they are.
C11_Preserve307308 ==
    [][\A r \in Calls :
          (Sending(r) /\ exec'[r].stage = "send"
              /\ exec'[r].sends # exec[r].sends)
          => \A res \in Responses :
              (/\ res.status \in {307, 308}
               /\ Poll(r, "execute_first", res))
              => /\ exec'[r].sent.method = exec[r].current_method
                 /\ exec'[r].sent.body = exec[r].current_body]_vars

\* C11 amended: after a followed 307 or 308 the next hop is sent with the
\* method of the current hop, and with the body of the current hop unless
\* that method is GET or HEAD, when the next hop is sent with an empty body.
C11_Preserve307308UnlessGetHead ==
    [][\A r \in Calls :
          (Sending(r) /\ exec'[r].stage = "send"
              /\ exec'[r].sends # exec[r].sends)
          => \A res \in Responses :
              (/\ res.status \in {307, 308}
               /\ Poll(r, "execute_first", res))
              => LET cur == exec[r].current_method
                 IN /\ exec'[r].sent.via = "primary"
                    /\ exec'[r].sent.method = cur
                    /\ exec'[r].current_method = cur
                    /\ exec'[r].sent.body =
                          IF cur \in {"GET", "HEAD"} THEN "empty"
                          ELSE exec[r].current_body
                    /\ exec'[r].current_body = exec'[r].sent.body]_vars

\* a POST with a body has been redirected twice and is still a POST that
\* carries the body
C11_Witness ==
    \E r \in Calls :
        /\ pc[r] = "racing" /\ exec[r].stage = "send"
        /\ exec[r].sends = 3
        /\ opts[r].method = "POST" /\ opts[r].body = "data"
        /\ exec[r].sent.method = "POST" /\ exec[r].sent.body = "data"

\* C12: the hop that follows a redirect to another scheme, host or port is
\* sent without Authorization, Proxy-Authorization and Cookie, and once a
\* request of an execution has been sent without them every later request
\* of that execution (redirect hop or fallback retry) is sent without them,
\* also when a later redirect leads back to the first origin.
C12_CredentialsStayStripped ==
    [][\A r \in Calls :
          (Sending(r) /\ exec'[r].stage \in {"send", "fallback"})
          => /\ (/\ exec'[r].sends # exec[r].sends
                 /\ \/ exec'[r].current_uri.scheme # exec[r].current_uri.scheme
                    \/ exec'[r].current_uri.host # exec[r].current_uri.host
                    \/ exec'[r].current_uri.port # exec[r].current_uri.port)
                => exec'[r].sent.headers \cap SensitiveHeaders = {}
             /\ exec[r].sent.headers \cap SensitiveHeaders = {}
                => exec'[r].sent.headers \cap SensitiveHeaders = {}]_vars

\* a request with credentials went to another origin and was redirected
\* back to the origin it started from
C12_Witness ==
    \E r \in Calls :
        /\ pc[r] = "racing" /\ exec[r].stage = "send"
        /\ exec[r].sends = 3
        /\ "authorization" \in opts[r].headers
        /\ "cookie" \in opts[r].headers
        /\ exec[r].current_uri = opts[r].uri
        /\ exec[r].sent.uri = opts[r].uri
        /\ exec[r].sent.headers \cap SensitiveHeaders = {}

\* The response res redirects to the origin of the current hop: its Location
\* is an absolute URI of that origin or a relative reference
SameOriginTarget(current_uri, res) ==
    \/ res.loc.k \in {"pathonly", "rel"}
    \/ /\ res.loc.k = "abs"
       /\ res.loc.uri.scheme = current_uri.scheme
       /\ res.loc.uri.host = current_uri.host
       /\ res.loc.uri.port = current_uri.port

\* C13: after a followed redirect whose target has the scheme, host and port
\* of the current hop, given by an absolute or by a relative Location, the
\* next hop carries the Authorization, Proxy-Authorization and Cookie headers
\* of the current hop.
C13_SameOriginKeepsCredentials ==
    [][\A r \in Calls :
          (Sending(r) /\ exec'[r].stage = "send"
              /\ exec'[r].sends # exec[r].sends)
          => \A res \in Responses :
              (/\ SameOriginTarget(exec[r].current_uri, res)
               /\ Poll(r, "execute_first", res))
              => exec'[r].sent.headers \cap SensitiveHeaders
                    = exec[r].headers \cap SensitiveHeaders]_vars

\* C14: an execution never follows more redirects than the request's
\* max_redirects (0 when unset); every followed redirect lowers the remaining
\* budget by exactly one; a response with a 3xx status that arrives when the
\* remaining budget is 0 is the terminal response.
C14_RedirectBudget ==
    [][\A r \in Calls :
          /\ Sending(r) =>
                /\ exec'[r].sends <= Budget(r) + 1
                /\ exec[r].redirects_left >= 0
                /\ (exec[r].sends - 1) + exec[r].redirects_left = Budget(r)
          /\ (Sending(r) /\ exec'[r].sends = exec[r].sends + 1)
                => exec'[r].redirects_left = exec[r].redirects_left - 1
          /\ (Sending(r) /\ exec[r].redirects_left = 0
                 /\ exec'[r] # exec[r])
                => /\ exec'[r].stage = "body"
                      => exec'[r].sends = exec[r].sends
                   /\ exec'[r].stage # "body"
                      => \A res \in Responses :
                            res.status \in 300..399
                               => ~Poll(r, "execute_first", res)]_vars

\* the budget of MaxRedirects was used up and a further redirect, to another
\* origin, became the terminal response
C14_Witness ==
    \E r \in Calls :
        /\ pc[r] = "racing" /\ exec[r].stage = "body"
        /\ Budget(r) = MaxRedirects
        /\ exec[r].sends = MaxRedirects + 1
        /\ exec[r].status = 307

\* C15: a primary or fallback send whose deadline expires ends the execution
\* with kind Timeout, and a send ends with Timeout only in that way; a
\* transport error ends it with HttpError (or, on the primary send, starts
\* the fallback), and a send ends with HttpError only on a transport error.
C15_TimeoutKind ==
    [][\A r \in Calls :
          (Sending(r) /\ exec'[r] # exec[r])
          => /\ Poll(r, "execute_first", [t |-> "timeout"])
                <=> (exec'[r].stage = "done"
                        /\ exec'[r].out.kind = "Timeout")
             /\ (\E err \in TransportErrors : Poll(r, "execute_first", err))
                <=> \/ exec'[r].stage = "done"
                       /\ exec'[r].out.kind = "HttpError"
                    \/ exec'[r].stage = "fallback"
             /\ exec'[r].stage = "done"
                => result'[r] = exec'[r].out]_vars

\* the fallback send ran into its deadline
C15_Witness ==
    \E r \in Calls :
        /\ pc[r] = "selected"
        /\ result[r].kind = "Timeout"
        /\ result[r].ctx = FallbackCtx

\* the primary send ran into its deadline
C15_WitnessPrimary ==
    \E r \in Calls :
        /\ pc[r] = "selected"
        /\ result[r].kind = "Timeout"
        /\ "timeoutSecs" \in result[r].ctx

\* C25: a fallback send is made only by the step that handles a transport
\* error of a primary send, with a preference of auto, unset or http2 and an
\* error text that matches the HTTP/2 protocol-error heuristic; with the
\* preference http1, after an expired deadline, or after an error that does
\* not match, the primary send's failure ends the execution at once
\* (HttpError for the error, Timeout for the deadline).
C25_FallbackOnlyOnH2Error ==
    [][\A r \in Calls :
          /\ exec'[r].fallbacks > exec[r].fallbacks =>
                /\ exec[r].stage = "send"
                /\ exec'[r].stage = "fallback"
                /\ opts[r].http_version \in {"auto", "unset", "http2"}
                /\ \A o \in ExecOutcomes :
                      Poll(r, "execute_first", o) =>
                          (o.t = "err" /\ o.h2 /\ o.proto)
          /\ exec[r].stage = "send" =>
                \A o \in TransportErrors \cup Timeouts :
                    (/\ \/ opts[r].http_version = "http1"
                        \/ o.t = "timeout"
                        \/ ~(o.h2 /\ o.proto)
                     /\ Poll(r, "execute_first", o))
                        => /\ exec'[r].stage = "done"
                           /\ result'[r].kind = IF o.t = "timeout"
                                                THEN "Timeout"
                                                ELSE "HttpError"]_vars

\* A fallback send is in flight after a redirect was followed
C25_Witness ==
    \E r \in Calls :
        /\ exec[r].stage = "fallback"
        /\ exec[r].sends = 2
        /\ opts[r].http_version = "http2"

\* A call with the preference http1 has ended with the error of its send
C25_WitnessNoFallback ==
    \E r \in Calls :
        /\ pc[r] = "selected"
        /\ opts[r].http_version = "http1"
        /\ result[r].kind = "HttpError"

\* C26: the fallback send carries the method, the URI and the body of the
\* primary send that failed, also when redirects were followed before.
C26_FallbackRetriesFailedHop ==
    [][\A r \in Calls :
          exec'[r].fallbacks > exec[r].fallbacks =>
              /\ exec'[r].sent.via = "fallback"
              /\ exec'[r].sent.method = exec[r].sent.method
              /\ exec'[r].sent.uri = exec[r].sent.uri
              /\ exec'[r].sent.body = exec[r].sent.body]_vars

\* C32: when a response with a 3xx status and a Location that resolves to no
\* valid URI arrives while redirect budget is left, the execution ends with
\* BadRequest.
C32_BadTargetIsBadRequest ==
    [][\A r \in Calls :
          (Sending(r) /\ exec[r].redirects_left > 0)
          => \A res \in Responses :
              (/\ res.status \in 300..399
               /\ res.loc.k = "bad"
               /\ Poll(r, "execute_first", res))
              => /\ exec'[r].stage = "done"
                 /\ exec'[r].out.kind = "BadRequest"]_vars

\* C33: a followed redirect whose Location is not an absolute URI sends the
\* next hop to a URI with the scheme, the host and the port of the current
\* hop.
C33_RelativeLocationResolved ==
    [][\A r \in Calls :
          (Sending(r) /\ exec'[r].stage = "send"
              /\ exec'[r].sends # exec[r].sends)
          => \A res \in Responses :
              (/\ res.loc.k \in {"pathonly", "rel"}
               /\ Poll(r, "execute_first", res))
              => /\ exec'[r].sent.uri.scheme = exec[r].current_uri.scheme
                 /\ exec'[r].sent.uri.host = exec[r].current_uri.host
                 /\ exec'[r].sent.uri.port = exec[r].current_uri.port]_vars

----------------------------------------------------------------------------
(* Properties of the body capture (checked under CaptureSpec) *)

Threshold(r) == stream_to_file_threshold(opts[r])
\* The step in which execute of call r returns a response
Responds(r) ==
    /\ pc[r] = "racing" /\ exec[r].stage = "body"
    /\ exec'[r].stage = "done" /\ exec'[r].out.kind = "Ok"

\* C16: a response returned by execute either has no file_path or has an
\* empty inline body, whatever chunks arrived and whatever the threshold is;
\* a file_path is returned exactly when a file holds the body.
C16_BodyInOnePlace ==
    \A r \in Calls :
        result[r].kind = "Ok"
            => /\ result[r].file_path = None \/ result[r].body = <<>>
               /\ result[r].file_path = None <=> result[r].file = None

\* a body of several chunks was returned in a file and not inline
C16_Witness ==
    \E r \in Calls :
        /\ pc[r] = "selected" /\ result[r].kind = "Ok"
        /\ result[r].file_path # None
        /\ result[r].body = <<>>
        /\ result[r].size = 3

\* C17 as stated: when the bytes received in all are at most the threshold,
\* the response has no file_path and carries them inline, non-empty.
C17_SmallBodyInlineNonEmpty ==
    [][\A r \in Calls :
          (Responds(r) /\ Len(exec[r].received) <= Threshold(r))
          => /\ result'[r].file_path = None
             /\ result'[r].body = exec[r].received
             /\ result'[r].body # <<>>]_vars

\* C17 amended: when the bytes received in all and the declared
\* Content-Length (0 without a usable header) are both at most the threshold,
\* the response has no file_path and carries exactly the received bytes
\* inline, which are empty when nothing was received; when the declared
\* Content-Length is above the threshold, received bytes go to a file even
\* if they are fewer than the threshold.
C17_SmallBodyInline ==
    [][\A r \in Calls :
          Responds(r)
          => /\ (/\ Len(exec[r].received) <= Threshold(r)
                 /\ exec[r].content_length <= Threshold(r))
                => /\ result'[r].file_path = None
                   /\ result'[r].file = None
                   /\ result'[r].body = exec[r].received
             /\ (/\ exec[r].content_length > Threshold(r)
                 /\ exec[r].received # <<>>)
                => /\ result'[r].file_path # None
                   /\ result'[r].body = <<>>]_vars

\* two chunks that add up to exactly the threshold were returned inline
C17_Witness ==
    \E r \in Calls :
        /\ pc[r] = "selected" /\ result[r].kind = "Ok"
        /\ opts[r].preview_max_bytes = Some(2)
        /\ result[r].body = <<1, 1>>
        /\ result[r].file_path = None

\* C18: when the bytes received in all exceed the threshold, the response has
\* a file_path and an empty inline body, and the file holds the received
\* chunks concatenated in arrival order; the chunk that starts the file is
\* written after the bytes buffered until then, and every later chunk is
\* appended, so that no byte is lost or repeated.
C18_LargeBodyInFile ==
    [][\A r \in Calls :
          /\ (Responds(r) /\ Len(exec[r].received) > Threshold(r))
                => /\ result'[r].file_path # None
                   /\ result'[r].body = <<>>
                   /\ result'[r].file = Some(exec[r].received)
          /\ (pc[r] = "racing" /\ exec[r].stage = "body"
                 /\ exec'[r].stage = "body" /\ IsSome(exec'[r].temp))
                => LET old == UnwrapOr(exec[r].temp, exec[r].body_buf)
                       new == Unwrap(exec'[r].temp)
                   IN /\ Len(new) >= Len(old)
                      /\ SubSeq(new, 1, Len(old)) = old
                      /\ new = exec'[r].received
                      /\ exec'[r].body_buf = <<>>]_vars

\* one chunk was buffered, the next one crossed the threshold, a third one
\* was appended, and the file holds the three in order
C18_Witness ==
    \E r \in Calls :
        /\ pc[r] = "selected" /\ result[r].kind = "Ok"
        /\ opts[r].preview_max_bytes = Some(2)
        /\ result[r].content_length = 0
        /\ result[r].file = Some(<<1, 2, 3, 1>>)
        /\ result[r].body = <<>>

\* C19: the size of the response is the number of body bytes received, for
\* an inline body and for a body in a file, whatever Content-Length the
\* response declared.
C19_SizeIsBytesReceived ==
    [][\A r \in Calls :
          /\ (pc[r] = "racing" /\ exec[r].stage = "body")
                => exec[r].size = Len(exec[r].received)
          /\ Responds(r)
                => /\ result'[r].size = Len(exec[r].received)
                   /\ result'[r].size =
                         IF result'[r].file_path = None
                         THEN Len(result'[r].body)
                         ELSE Len(Unwrap(result'[r].file))]_vars

\* a response that declared 1 byte delivered 5, which went to a file
C19_Witness ==
    \E r \in Calls :
        /\ pc[r] = "selected" /\ result[r].kind = "Ok"
        /\ result[r].content_length = 1
        /\ result[r].size = 5
        /\ result[r].file_path # None

\* a response that declared 3 bytes delivered 2, which were returned inline
C19_WitnessInline ==
    \E r \in Calls :
        /\ pc[r] = "selected" /\ result[r].kind = "Ok"
        /\ result[r].content_length = 3
        /\ result[r].size = 2
        /\ result[r].file_path = None

----------------------------------------------------------------------------
(* Properties of the DNS override (checked under ResolverSpec) *)

\* a and b are the same name up to the case of their ASCII letters
SameNameIgnoringCase(a, b) ==
    /\ DOMAIN a = DOMAIN b
    /\ \A i \in DOMAIN a : a[i] = b[i] \/ {a[i], b[i]} = {"a", "A"}

C20_WitnessOtherName ==
    /\ dns.built = "yes"
    /\ IsSome(dns.override_socket)
    /\ dns.target_host = <<"a", "b">>
    /\ dns.lookup = Some(<<"b", "a">>)
    /\ IsSome(dns.answer) /\ ~Unwrap(dns.answer).ok

----------------------------------------------------------------------------
(* Properties of the Set-Cookie parser (checked under CookieSpec) *)

\* The name and the value that each first segment is stated to give
C21_Halves(first) ==
    CASE first = <<"a", "=", "b">> -> [name |-> <<"a">>, value |-> <<"b">>]
      [] first = <<" ", "a", " ", "=", " ", "b", " ">> ->
            [name |-> <<"a">>, value |-> <<"b">>]
      [] first = <<"a">> -> [name |-> <<"a">>, value |-> <<>>]
      [] first = <<"a", "=", "b", "=", "b">> ->
            [name |-> <<"a">>, value |-> <<"b", "=", "b">>]
      [] first = <<"a", "=">> -> [name |-> <<"a">>, value |-> <<>>]
      [] OTHER -> [name |-> <<>>, value |-> <<>>]

\* The field that each attribute of the stated example gives
C21_Given(cookie, segment) ==
    CASE segment = <<" ", "Domain", "=", "x.com">> ->
            [cookie EXCEPT !.domain = Some(<<"x.com">>)]
      [] segment = <<" ", "Path", "=", "/">> ->
            [cookie EXCEPT !.path = Some(<<"/">>)]
      [] segment = <<" ", "Max-Age", "=", "1", "0">> ->
            [cookie EXCEPT !.max_age = Some(10)]
      [] segment = <<" ", "Secure">> -> [cookie EXCEPT !.secure = Some(TRUE)]
      [] segment = <<" ", "HttpOnly">> ->
            [cookie EXCEPT !.http_only = Some(TRUE)]
      [] segment = <<" ", "SameSite", "=", "Lax">> ->
            [cookie EXCEPT !.same_site = Some(<<"Lax">>)]

C21_Example ==
    {<<" ", "Domain", "=", "x.com">>, <<" ", "Path", "=", "/">>,
     <<" ", "Max-Age", "=", "1", "0">>, <<" ", "Secure">>,
     <<" ", "HttpOnly">>, <<" ", "SameSite", "=", "Lax">>}

\* C21: parse_set_cookie_header returns no cookie exactly when the trimmed
\* text before the first '=' of the first segment is empty; otherwise the
\* cookie has the trimmed halves of the first segment as name and value, no
\* attribute changes them, each given attribute sets its own field to the
\* given value, and the cookie returned is the one so built.
C21_CookieOfHeader ==
    [][/\ \A first \in FirstSegments :
            ParseFirst(first) =>
                IF C21_Halves(first).name = <<>>
                THEN ck'.at = "done" /\ ck'.result = None
                ELSE /\ ck'.at = "attrs"
                     /\ ck'.cookie.name = C21_Halves(first).name
                     /\ ck'.cookie.value = C21_Halves(first).value
                     /\ \A f \in {"domain", "path", "expires", "max_age",
                                  "secure", "http_only", "same_site"} :
                            ck'.cookie[f] = None
       /\ \A segment \in AttrSegments :
            ParseSegment(segment) =>
                /\ ck'.cookie.name = ck.cookie.name
                /\ ck'.cookie.value = ck.cookie.value
                /\ segment \in C21_Example =>
                        ck'.cookie = C21_Given(ck.cookie, segment)
       /\ ParseEnd => ck'.result = Some(ck.cookie)]_vars

\* The header of the example has been parsed: a, b, x.com, /, 10, true, true,
\* Lax
C21_Witness ==
    /\ ck.at = "done"
    /\ ck.n = 6
    /\ ck.result = Some([name |-> <<"a">>, value |-> <<"b">>,
                         domain |-> Some(<<"x.com">>), path |-> Some(<<"/">>),
                         expires |-> None, max_age |-> Some(10),
                         secure |-> Some(TRUE), http_only |-> Some(TRUE),
                         same_site |-> Some(<<"Lax">>)])

\* A header whose first segment has no name has given no cookie
C21_WitnessNone == ck.at = "done" /\ ck.result = None

\* The segments that are stated to change nothing: empty segments, unknown
\* attributes, unknown flags without value, attributes with an empty value
C22_Ignored ==
    {<<>>, <<" ">>, <<" ", "Foo", "=", "Bar">>, <<"Baz">>,
     <<"Domain", "=", " ">>, <<"SameSite", "=">>}

\* The field that each segment written in another letter case is stated to set
C22_Given(cookie, segment) ==
    CASE segment = <<"SECURE", " ">> -> [cookie EXCEPT !.secure = Some(TRUE)]
      [] segment = <<"HTTPONLY">> -> [cookie EXCEPT !.http_only = Some(TRUE)]
      [] segment = <<"DOMAIN", " ", "=", " ", "x.com", " ">> ->
            [cookie EXCEPT !.domain = Some(<<"x.com">>)]
      [] segment = <<" ", "SameSite", "=", "Lax">> ->
            [cookie EXCEPT !.same_site = Some(<<"Lax">>)]
      [] segment = <<"SAMESITE", "=", "lAx">> ->
            [cookie EXCEPT !.same_site = Some(<<"Lax">>)]
      [] segment = <<"SameSite", "=", "STRICT", " ">> ->
            [cookie EXCEPT !.same_site = Some(<<"Strict">>)]
      [] segment = <<"SameSite", "=", "NONE">> ->
            [cookie EXCEPT !.same_site = Some(<<"None">>)]
      [] segment = <<"SameSite", "=", "Experimental">> ->
            [cookie EXCEPT !.same_site = Some(<<"experimental">>)]

C22_AnyCase ==
    {<<"SECURE", " ">>, <<"HTTPONLY">>,
     <<"DOMAIN", " ", "=", " ", "x.com", " ">>,
     <<" ", "SameSite", "=", "Lax">>, <<"SAMESITE", "=", "lAx">>,
     <<"SameSite", "=", "STRICT", " ">>, <<"SameSite", "=", "NONE">>,
     <<"SameSite", "=", "Experimental">>}

\* C22: attribute keys are matched in any letter case; an empty segment, an
\* unknown attribute, an unknown flag without value and an attribute with an
\* empty value leave every field of the cookie as it was and the parse goes
\* on; SameSite becomes exactly Strict, Lax or None for any letter case of
\* these words and the lower-cased text otherwise.
C22_AttributesAnyCase ==
    [][\A segment \in AttrSegments :
            ParseSegment(segment) =>
                /\ ck'.at = "attrs"
                /\ segment \in C22_Ignored => ck'.cookie = ck.cookie
                /\ segment \in C22_AnyCase =>
                        ck'.cookie = C22_Given(ck.cookie, segment)]_vars

\* A cookie whose SameSite was given as STRICT and that has the Secure flag
C22_Witness ==
    /\ ck.at = "done"
    /\ IsSome(ck.result)
    /\ Unwrap(ck.result).same_site = Some(<<"Strict">>)
    /\ Unwrap(ck.result).secure = Some(TRUE)

\* A cookie whose unknown SameSite value was lower-cased
C22_WitnessOther ==
    /\ ck.at = "attrs"
    /\ ck.cookie.same_site = Some(<<"experimental">>)

----------------------------------------------------------------------------
(* Properties of the multipart body (checked under MultipartSpec) *)

\* The positions of the opening and of the closing delimiter lines of a body
Opens(body, boundary) == {i \in DOMAIN body : body[i] = delimiter(boundary)}
Closes(body, boundary) ==
    {i \in DOMAIN body : body[i] = close_delimiter(boundary)}

\* The position of the k-th opening delimiter line
OpenAt(body, boundary, k) ==
    CHOOSE i \in Opens(body, boundary) :
        Cardinality({j \in Opens(body, boundary) : j < i}) = k - 1

\* The line is a Content-Disposition: form-data header with the name of the
\* part, and with a filename exactly for a file part
NamesPart(line, part) ==
    /\ Len(line) >= Len(part.name) + 2
    /\ line[1] = "Content-Disposition: form-data; name=\""
    /\ SubSeq(line, 2, Len(part.name) + 1) = escape_quotes(part.name)
    /\ line[Len(part.name) + 2] = "\""
    /\ contains(line, "; filename=\"") <=> part.kind = "file"

\* C23: the body built for n parts has exactly n opening delimiter lines
\* "--<boundary>", the k-th of them followed by the Content-Disposition header
\* of the k-th part, and exactly one closing delimiter "--<boundary>--", which
\* is its last line.
C23_SegmentPerPart ==
    mp.built = "ok" =>
        /\ Cardinality(Opens(mp.body, mp.boundary)) = Len(mp.parts)
        /\ \A k \in DOMAIN mp.parts :
                NamesPart(mp.body[OpenAt(mp.body, mp.boundary, k) + 1],
                          mp.parts[k])
        /\ Closes(mp.body, mp.boundary) = {Len(mp.body)}

\* The boundary parameter of a Content-Type header: the text after
\* "boundary=" up to the next ';', without blanks and quotes around it
BoundaryParameter(content_type) ==
    LET idx == find(to_lowercase_text(content_type), "boundary=")
        raw == SubSeq(content_type, idx + 1, Len(content_type))
        semi == find(raw, ";")
    IN IF idx = 0 THEN <<>>
       ELSE trim_matches_quote(trim(IF semi = 0 THEN raw
                                    ELSE SubSeq(raw, 1, semi - 1)))

\* C40: whatever Content-Type header the caller supplied, the boundary that
\* delimits the body built is the boundary parameter of the Content-Type
\* header sent.
C40_BoundaryMatchesHeader ==
    mp.built = "ok" => BoundaryParameter(mp.content_type) = mp.boundary

----------------------------------------------------------------------------
(* Properties of the log events (checked under LogSpec) *)

\* A log event without the lengths it reports
WithoutLengths(event) ==
    LET erase(s) == [i \in DOMAIN s |->
                        IF s[i] \in {LenToken(n) : n \in 0..9} THEN "#"
                        ELSE s[i]]
    IN [event EXCEPT !.length = 0, !.message = erase(event.message),
                     !.detail = erase(event.detail)]

\* C31: with redact_sensitive the log streams of two executions that differ
\* only in the values of their Authorization, Cookie and Set-Cookie headers
\* are equal but for the value lengths they report.
C31_RedactedLogsEqual ==
    (lg.at # "start" /\ lg.redact) =>
        /\ Len(lg.logs[1]) = Len(lg.logs[2])
        /\ \A i \in DOMAIN lg.logs[1] :
              WithoutLengths(lg.logs[1][i]) = WithoutLengths(lg.logs[2][i])

----------------------------------------------------------------------------
(* Properties of the request options (checked under OptionSpec) *)

\* C24: an execution that ends with a validation failure (BadRequest or
\* IoError raised outside the capture of the response body) has made no
\* network send before.
C24_ValidationBeforeSend ==
    [][\A r \in Calls :
          (/\ exec[r].stage \in {"start", "send", "fallback"}
           /\ exec'[r].stage = "done"
           /\ exec'[r].out.kind \in {"BadRequest", "IoError"})
              => exec[r].sends = 0]_vars

\* The context that a failure is stated to carry: method, URI and timeout,
\* and each override, TLS flag and user agent that the request sets
C27_Context(opt) ==
    {"method", "uri", "timeoutSecs"}
        \cup {k \in {"hostOverride", "ipOverride", "disableSsl", "caPath",
                     "userAgent"} :
                CASE k = "hostOverride" -> IsSome(opt.host_override)
                  [] k = "ipOverride" -> IsSome(opt.ip_override)
                  [] k = "disableSsl" -> IsSome(opt.disable_ssl)
                  [] k = "caPath" -> IsSome(opt.ca_path)
                  [] OTHER -> IsSome(opt.user_agent)}

\* C27: the error that ends an execution whose fallback send failed or timed
\* out carries the context of a primary failure.
C27_FallbackErrorContext ==
    [][\A r \in Calls :
          (/\ exec[r].stage = "fallback"
           /\ exec'[r].stage = "done"
           /\ exec'[r].out.kind \in {"HttpError", "Timeout"})
              => C27_Context(opts[r]) \subseteq exec'[r].out.ctx]_vars

\* The step hands a request to the network: a primary send, a redirect hop
\* or a fallback send of call r
Sends(r) ==
    /\ exec'[r].sent # NoSent
    /\ \/ exec'[r].sends > exec[r].sends
       \/ exec'[r].fallbacks > exec[r].fallbacks

\* The Host header that a request with this host override is stated to carry
C28_Host(opt, uri) ==
    CASE opt.host_override = Some(<<"o.test", ":", "1", "0">>) ->
            <<"o.test">>
      [] opt.host_override = Some(<<"[", "::1", "]", ":", "1">>) ->
            <<"[", "::1", "]">>
      [] OTHER -> <<uri.host>>

\* C28: when the preference is http1 or a host override is set and the caller
\* gave no Host header, every request sent carries the sanitized host override
\* (the URL host without one) as Host header; in every other case a request
\* sent has no Host header but the caller's.
C28_HostHeader ==
    [][\A r \in Calls :
          Sends(r) =>
              IF /\ \/ opts'[r].http_version = "http1"
                    \/ IsSome(opts'[r].host_override)
                 /\ "host" \notin opts'[r].headers
              THEN exec'[r].sent.values.host
                      = Some(C28_Host(opts'[r], exec'[r].sent.uri))
              ELSE \/ exec'[r].sent.values.host = None
                   \/ /\ "host" \in opts'[r].headers
                      /\ exec'[r].sent.values.host = Some(CallerHost)]_vars

\* C29: with a preference that permits HTTP/2 (auto, unset, http2) no request
\* sent carries a Connection, Proxy-Connection, Keep-Alive, Upgrade or
\* Transfer-Encoding header; with the preference http1 every request sent
\* carries those of them that the caller supplied.
C29_HopByHopHeaders ==
    [][\A r \in Calls :
          Sends(r) =>
              LET hop == {"connection", "proxy-connection", "keep-alive",
                          "upgrade", "transfer-encoding"}
              IN exec'[r].sent.headers \cap hop =
                    IF opts'[r].http_version = "http1"
                    THEN opts'[r].headers \cap hop
                    ELSE {}]_vars

\* A fallback send was made after a redirect for a request that permits
\* HTTP/2 and whose caller supplied the five headers
C29_Witness ==
    \E r \in Calls :
        /\ exec[r].stage = "fallback"
        /\ exec[r].sends = 2
        /\ opts[r].http_version = "auto"
        /\ "transfer-encoding" \in opts[r].headers
        /\ "connection" \in opts[r].headers

\* A redirect hop of a request with the preference http1 carries the five
\* headers of the caller
C29_WitnessHttp1 ==
    \E r \in Calls :
        /\ exec[r].stage = "send"
        /\ exec[r].sends = 2
        /\ opts[r].http_version = "http1"
        /\ "transfer-encoding" \in exec[r].sent.headers

\* C30: every request sent carries the caller's user agent unchanged (the
\* user_agent field, or the User-Agent header of a request without the
\* field), and the default Knurl user agent only when the request has
\* neither.
C30_UserAgent ==
    [][\A r \in Calls :
          Sends(r) =>
              LET sent == exec'[r].sent.values.user_agent
                  field == opts'[r].user_agent
                  header == "user-agent" \in opts'[r].headers
              IN /\ sent = Some("Knurl/version") => field = None /\ ~header
                 /\ IsSome(field) /\ ~header => sent = field
                 /\ field = None /\ header => sent = Some("ua.caller")]_vars

----------------------------------------------------------------------------
(* Properties of the registry mutex (checked under LockSpec) *)

\* C35: the mutex is held only by a task that runs the body of register,
\* cancel or remove, which returns without suspending: no task holds it while
\* it is suspended in its select! or stands outside these functions, so
\* whenever the mutex is taken its holder can give it back.
C35_LockOnlyInsideRegistryCalls ==
    /\ \A task \in LockTasks :
          lk.holder = Some(task) <=>
              lk.at[task] \in {"register_locked", "cancel_locked",
                               "remove_locked"}
    /\ \A task \in SendTasks :
          lk.at[task] = "racing" => lk.holder # Some(task)

\* One request's cancel runs inside the registry while the tasks of two other
\* requests are suspended on their network I/O
C35_Witness ==
    /\ lk.at["s1"] = "racing"
    /\ lk.at["s2"] = "racing"
    /\ lk.holder = Some("k1")


\* The bytes stored so far for the body of call r: in the temp file once it
\* exists, in the buffer before
StoredBytes(e) == IF IsSome(e.temp) THEN Unwrap(e.temp) ELSE e.body_buf

\* C34: each chunk that arrives is logged (when body logging is on) at the
\* end of the body log events and then stored at the end of the stored
\* bytes, in the step that reads it and before the next chunk is read; a
\* chunk that cannot be stored was already logged. So the log events and the
\* stored bytes follow the arrival order of the chunks.
C34_ChunksInArrivalOrder ==
    [][\A r \in Calls :
          (pc[r] = "racing" /\ exec[r].stage = "body")
              => \A o \in BodyEvents :
                    (o.t = "chunk" /\ Poll(r, "execute_first", o))
                        => /\ exec'[r].body_log =
                                exec[r].body_log \o
                                  (IF UnwrapOr(opts[r].log_bodies, TRUE)
                                   THEN log_body(o.bytes,
                                                 max_log_bytes(opts[r]))
                                   ELSE <<>>)
                           /\ exec'[r].stage = "body"
                                => /\ StoredBytes(exec'[r]) =
                                        StoredBytes(exec[r]) \o o.bytes
                                   /\ StoredBytes(exec'[r]) =
                                        exec'[r].received]_vars

\* two chunks arrived, <<1>> and then <<2, 3>>: the log has their events in
\* that order and the bytes stored are 1, 2, 3
C34_Witness ==
    \E r \in Calls :
        /\ exec[r].stage = "body"
        /\ Len(exec[r].body_log) = 2
        /\ exec[r].body_log[1].preview = <<1>>
        /\ exec[r].body_log[2].preview = <<2, 3>>
        /\ StoredBytes(exec[r]) = <<1, 2, 3>>


\* ------------------------------------------------------------------------
\* Properties of the temp file and of the deadline (SpoolSpec)
\* ------------------------------------------------------------------------

\* C36: when send_http_request has its result, the temp file created for the
\* body is still on disk exactly when the result is a response with a
\* file_path, which then names that file and its content; after a body
\* stream error, a temp-file error or a cancellation no file is left and no
\* path is returned.
C36_TempFileSurvivesWithResponse ==
    \A r \in Calls :
        pc[r] \in {"selected", "returned"}
            => /\ exec[r].temp_file \in {"none", "kept", "deleted"}
               /\ exec[r].temp_file = "kept"
                    <=> (result[r].kind = "Ok" /\ result[r].file_path # None)

\* the call was cancelled while chunks were written to its temp file: the
\* file is deleted and the result is UserCancelled
C36_Witness ==
    \E r \in Calls :
        /\ pc[r] = "selected" /\ result[r].kind = "UserCancelled"
        /\ exec[r].stage = "body" /\ IsSome(exec[r].temp)
        /\ exec[r].temp_file = "deleted"

\* C39: once capture of the terminal response has begun, execute ends only
\* with the response, with HttpError or with IoError, and the call only with
\* one of these or with UserCancelled; Timeout is the result of an attempt
\* whose response head did not arrive in time, never of the capture.
C39_NoTimeoutDuringCapture ==
    [][\A r \in Calls :
          (pc[r] = "racing" /\ exec[r].stage = "body")
              => /\ exec'[r].stage \in {"body", "done"}
                 /\ exec'[r].stage = "done"
                      => exec'[r].out.kind \in {"Ok", "HttpError", "IoError"}
                 /\ result'[r].kind \in {"none", "Ok", "HttpError", "IoError",
                                         "UserCancelled"}]_vars

\* a body stream error ended the capture after a chunk had arrived
C39_Witness ==
    \E r \in Calls :
        /\ pc[r] = "selected" /\ result[r].kind = "HttpError"
        /\ Len(exec[r].body_log) > 0


\* ------------------------------------------------------------------------
\* The registry and the calls in flight (checked under Spec)
\* ------------------------------------------------------------------------

\* The keys of the registry are the ids of the calls that have registered
\* and not yet removed their entry, and each of them maps to its call's token
RegistryExact ==
    /\ {id \in Ids : IsSome(tokens[id])}
         = {IdOf(r) : r \in {q \in Calls : Registered(q)}}
    /\ \A r \in Calls : Registered(r) => tokens[IdOf(r)] = Some(r)
\* No two calls that are registered at the same time have the same id
DistinctLive ==
    \A r, q \in Calls :
        (r # q /\ Registered(r) /\ Registered(q)) => IdOf(r) # IdOf(q)

\* C37: the registry starts exact, and every step that leaves the calls in
\* flight with distinct ids leaves it exact: its keys are the ids of the
\* calls registered and not yet removed, and the token under the id of such
\* a call is the token that call races against.
C37_RegistryMatchesCallsInFlight ==
    [][/\ Init => RegistryExact
       /\ (RegistryExact /\ DistinctLive') => RegistryExact']_vars

\* two calls with distinct ids race at the same time, each against the token
\* stored under its id, after one of them has been cancelled
C37_Witness ==
    /\ pc["c1"] = "racing" /\ pc["c2"] = "selected"
    /\ IdOf("c1") # IdOf("c2")
    /\ tokens[IdOf("c1")] = Some("c1") /\ tokens[IdOf("c2")] = Some("c2")
    /\ "c1" \in cancelled


\* ------------------------------------------------------------------------
\* Termination of a call (checked under LiveSpec)
\* ------------------------------------------------------------------------

\* C38: a call that has registered returns in the end, with its registry
\* entry removed, and until then it has made at most max_redirects + 1
\* primary sends and at most one fallback send for each of them.
C38_CallReturns ==
    /\ \A r \in Calls :
          (pc[r] = "racing")
              ~> (pc[r] = "returned" /\ tokens[IdOf(r)] = None)
    /\ [](\A r \in Calls :
             pc[r] # "idle"
                => /\ exec[r].sends <= Budget(r) + 1
                   /\ exec[r].fallbacks <= exec[r].sends)

\* the call returned after its fallback send had failed, and its entry is
\* removed
C38_Witness ==
    \E r \in Calls :
        /\ pc[r] = "returned" /\ tokens[IdOf(r)] = None
        /\ Budget(r) = MaxRedirects
        /\ result[r].kind = "HttpError" /\ result[r].ctx = FallbackCtx

====
